---- MODULE Spec2Model ----
(***************************************************************************)
(* Pylet: lexer -> parser -> semantic analyzer -> reference-counting       *)
(* tree-walking interpreter, as driven by main.py.                         *)
(*                                                                         *)
(* Source text is a TLA+ string; a character is a string of length 1.      *)
(* Positions are 1-based here (Python's pos + 1).                          *)
(***************************************************************************)
EXTENDS Integers, Sequences, FiniteSets, TLC

VARIABLES
    code,        \* main.py: the source text read from the file
    phase,       \* main.py: how far the driver got, or how it exited
    tokens,      \* lexer(code)
    ast,         \* Parser(tokens).parse()
    analyzer,    \* SemanticAnalyzer: scopes, errors, warnings (and its visit log)
    interp,      \* Interpreter: heap, env_stack, output (and its call/lookup log)
    idx          \* Interpreter.eval(Program): index of the next child to evaluate

vars == <<code, phase, tokens, ast, analyzer, interp, idx>>

(***************************************************************************)
(* Bounds of the model.                                                    *)
(***************************************************************************)
MaxStmts == 2        \* pool fragments concatenated into one source text
MaxCallDepth == 3    \* nested user-defined calls before RecursionError
MaxIds == 2          \* heap ids a client of the Heap allocates
MaxCount == 2        \* reference count up to which a client retains an id
MaxFrames == 2       \* frames of the environment stack a client starts from

(***************************************************************************)
(* lexer.py                                                                *)
(***************************************************************************)
keywords ==
    {"let", "mut", "const", "fn", "return", "if", "else", "while", "for",
     "break", "continue", "true", "false", "null", "match", "case"}

functions ==
    {"print", "input", "to_string", "to_int", "to_float", "abs", "min", "max",
     "sqrt", "pow", "len", "push", "pop", "assert", "panic"}

operators ==
    <<"==", "!=", "<=", ">=", "++", "--", "&&", "||",
      "+", "-", "*", "/", "%", "=", "<", ">", "!">>

separators == {"(", ")", "{", "}", "[", "]", ";", ",", "."}

whitespace == {" ", "\t"}

Digits == {"0", "1", "2", "3", "4", "5", "6", "7", "8", "9"}

IdentStart ==
    {"a", "b", "c", "d", "e", "f", "g", "h", "i", "j", "k", "l", "m",
     "n", "o", "p", "q", "r", "s", "t", "u", "v", "w", "x", "y", "z",
     "A", "B", "C", "D", "E", "F", "G", "H", "I", "J", "K", "L", "M",
     "N", "O", "P", "Q", "R", "S", "T", "U", "V", "W", "X", "Y", "Z", "_"}

WordChars == IdentStart \cup Digits

\* code[i] as a one-character string, "" outside the text
Ch(s, i) == IF i >= 1 /\ i <= Len(s) THEN SubSeq(s, i, i) ELSE ""

\* first index >= i whose character is not in S (Len(s)+1 at the end)
RECURSIVE SpanWhile(_, _, _)
SpanWhile(s, i, S) ==
    IF i <= Len(s) /\ Ch(s, i) \in S THEN SpanWhile(s, i + 1, S) ELSE i

\* first index >= i whose character is a newline (Len(s)+1 at the end)
RECURSIVE SpanLine(_, _)
SpanLine(s, i) ==
    IF i <= Len(s) /\ Ch(s, i) # "\n" THEN SpanLine(s, i + 1) ELSE i

\* first index j >= i with s[j..j+1] = "*/", 0 when there is none
RECURSIVE FindClose(_, _)
FindClose(s, i) ==
    IF i + 1 > Len(s) THEN 0
    ELSE IF Ch(s, i) = "*" /\ Ch(s, i + 1) = "/" THEN i
    ELSE FindClose(s, i + 1)

\* end (exclusive) of a string body scanned from i up to the closing quote q,
\* 0 when the text ends first: ([^q\\]|\\.)*q
RECURSIVE ScanString(_, _, _)
ScanString(s, i, q) ==
    IF i > Len(s) THEN 0
    ELSE IF Ch(s, i) = q THEN i + 1
    ELSE IF Ch(s, i) = "\\"
         THEN IF i + 1 > Len(s) THEN 0 ELSE ScanString(s, i + 2, q)
    ELSE ScanString(s, i + 1, q)

\* COMMENT: //[^\n]*|/\*.*?\*/   (end exclusive, 0: no match)
MatchComment(s, pos) ==
    IF Ch(s, pos) = "/" /\ Ch(s, pos + 1) = "/" THEN SpanLine(s, pos + 2)
    ELSE IF Ch(s, pos) = "/" /\ Ch(s, pos + 1) = "*"
         THEN LET c == FindClose(s, pos + 2) IN IF c = 0 THEN 0 ELSE c + 2
    ELSE 0

\* NUMBER: [-+]?\d+(\.\d+)?
MatchNumber(s, pos) ==
    LET d == IF Ch(s, pos) \in {"-", "+"} THEN pos + 1 ELSE pos IN
    IF Ch(s, d) \notin Digits THEN 0
    ELSE LET e == SpanWhile(s, d, Digits) IN
         IF Ch(s, e) = "." /\ Ch(s, e + 1) \in Digits
         THEN SpanWhile(s, e + 1, Digits) ELSE e

\* STRING: "([^"\\]|\\.)*"|'([^'\\]|\\.)*'
MatchString(s, pos) ==
    IF Ch(s, pos) \in {"\"", "'"} THEN ScanString(s, pos + 1, Ch(s, pos)) ELSE 0

\* ID: [A-Za-z_]\w*
MatchId(s, pos) ==
    IF Ch(s, pos) \in IdentStart THEN SpanWhile(s, pos + 1, WordChars) ELSE 0

\* OP: the operators in their listed order, multi-character first
RECURSIVE MatchOpFrom(_, _, _)
MatchOpFrom(s, pos, k) ==
    IF k > Len(operators) THEN 0
    ELSE IF pos + Len(operators[k]) - 1 <= Len(s)
              /\ SubSeq(s, pos, pos + Len(operators[k]) - 1) = operators[k]
         THEN pos + Len(operators[k])
    ELSE MatchOpFrom(s, pos, k + 1)

MatchOp(s, pos) == MatchOpFrom(s, pos, 1)

\* get_token(code, pos): the first alternative of tok_regex that matches at pos,
\* as [kind, end]; kind "NONE" stands for mo is None (only at the end of the text)
get_token(s, pos) ==
    IF pos > Len(s) THEN [kind |-> "NONE", end |-> pos]
    ELSE IF MatchComment(s, pos) # 0 THEN [kind |-> "COMMENT", end |-> MatchComment(s, pos)]
    ELSE IF MatchNumber(s, pos) # 0 THEN [kind |-> "NUMBER", end |-> MatchNumber(s, pos)]
    ELSE IF MatchString(s, pos) # 0 THEN [kind |-> "STRING", end |-> MatchString(s, pos)]
    ELSE IF MatchId(s, pos) # 0 THEN [kind |-> "ID", end |-> MatchId(s, pos)]
    ELSE IF MatchOp(s, pos) # 0 THEN [kind |-> "OP", end |-> MatchOp(s, pos)]
    ELSE IF Ch(s, pos) \in separators THEN [kind |-> "SEP", end |-> pos + 1]
    ELSE IF Ch(s, pos) = "\n" THEN [kind |-> "NEWLINE", end |-> pos + 1]
    ELSE IF Ch(s, pos) \in whitespace
         THEN [kind |-> "WS", end |-> SpanWhile(s, pos, whitespace)]
    ELSE [kind |-> "MISMATCH", end |-> pos + 1]

\* the kind a matched ID is emitted with
IdKind(value) ==
    IF value \in keywords THEN "KEYWORD"
    ELSE IF value \in functions THEN "FUNCTION"
    ELSE "IDENT"

\* one iteration of the while loop of lexer(), on [pos, line, col, tokens] and
\* two flags: done (mo is None: the EOF token was appended) and ok (FALSE once
\* MISMATCH raised RuntimeError)
LexStep(s, st) ==
    LET mo == get_token(s, st.pos)
        value == SubSeq(s, st.pos, mo.end - 1)
    IN
    IF st.done \/ ~st.ok THEN st
    ELSE IF mo.kind = "NONE"
    THEN [st EXCEPT !.done = TRUE,
                    !.tokens = Append(@, <<"EOF", "", st.line, st.col>>)]
    ELSE IF mo.kind = "MISMATCH"
    THEN [st EXCEPT !.ok = FALSE]
    ELSE IF mo.kind = "NEWLINE"
    THEN [st EXCEPT !.pos = mo.end, !.line = @ + 1, !.col = 0 + Len(value)]
    ELSE IF mo.kind \in {"COMMENT", "WS"}
    THEN [st EXCEPT !.pos = mo.end, !.col = @ + Len(value)]
    ELSE LET kind == IF mo.kind = "ID" THEN IdKind(value) ELSE mo.kind IN
         [st EXCEPT !.pos = mo.end, !.col = @ + Len(value),
                    !.tokens = Append(@, <<kind, value, st.line, st.col>>)]

\* n iterations of the loop (halved, to keep the evaluation shallow)
RECURSIVE LexSteps(_, _, _)
LexSteps(s, st, n) ==
    IF n = 0 \/ st.done \/ ~st.ok THEN st
    ELSE IF n = 1 THEN LexStep(s, st)
    ELSE LexSteps(s, LexSteps(s, st, n \div 2), n - (n \div 2))

\* lexer(code): every match consumes a character, so Len(code) + 1 iterations
\* reach the end of the text
lexer(s) ==
    LexSteps(s, [pos |-> 1, line |-> 1, col |-> 1, tokens |-> <<>>,
                 ok |-> TRUE, done |-> FALSE], Len(s) + 1)

(***************************************************************************)
(* parser.py                                                               *)
(*                                                                         *)
(* An ASTNode is [type, value, children].  value is kept as a sequence of  *)
(* strings: <<>> for None, <<name>>, <<op>>, <<text>>, <<kind, name>> for  *)
(* VarDecl, <<name>> \o params for Function, <<"True">> or <<"False">> for *)
(* Bool.  A parse function returns [ok, node, pos]; ok = FALSE stands for  *)
(* a raised SyntaxError.                                                   *)
(***************************************************************************)
\* the value of an expression over a local variable assigned once:
\* Only({e : r \in {call}}) is e with r the result of the call, made once
Only(S) == CHOOSE r \in S : TRUE

ASTNode(type_, value, children) ==
    [type |-> type_, value |-> value, children |-> children]

NoNode == ASTNode("None", <<>>, <<>>)

SyntaxError(pos) == [ok |-> FALSE, node |-> NoNode, pos |-> pos]

Parsed(node, pos) == [ok |-> TRUE, node |-> node, pos |-> pos]

current(toks, pos) == IF pos > Len(toks) THEN <<"EOF", "", 0, 0>> ELSE toks[pos]

peek(toks, pos) == IF pos + 1 > Len(toks) THEN <<"EOF", "", 0, 0>> ELSE toks[pos + 1]

at_end(toks, pos) == pos > Len(toks) \/ current(toks, pos)[1] = "EOF"

\* eat(type_, value): "" stands for an argument left out (None)
eat(toks, pos, type_, value) ==
    IF at_end(toks, pos) THEN [ok |-> FALSE, tok |-> current(toks, pos), pos |-> pos]
    ELSE IF type_ # "" /\ current(toks, pos)[1] # type_
    THEN [ok |-> FALSE, tok |-> current(toks, pos), pos |-> pos]
    ELSE IF value # "" /\ current(toks, pos)[2] # value
    THEN [ok |-> FALSE, tok |-> current(toks, pos), pos |-> pos]
    ELSE [ok |-> TRUE, tok |-> current(toks, pos), pos |-> pos + 1]

BinaryOps == {"+", "-", "*", "/", "%", "==", "!=", "<", ">", "<=", ">=", "&&", "||"}

UnaryOps == {"+", "-", "!", "++", "--"}

\* The table the specification describes: one level for all six comparisons.
get_precedence_flat(op) ==
    CASE op = "||" -> 1
      [] op = "&&" -> 2
      [] op \in {"==", "!=", "<", ">", "<=", ">="} -> 3
      [] op \in {"+", "-"} -> 5
      [] op \in {"*", "/", "%"} -> 6
      [] OTHER -> 0

get_precedence(op) ==
    CASE op = "||" -> 1
      [] op = "&&" -> 2
      [] op \in {"==", "!="} -> 3
      [] op \in {"<", ">", "<=", ">="} -> 4
      [] op \in {"+", "-"} -> 5
      [] op \in {"*", "/", "%"} -> 6
      [] OTHER -> 0

\* A plausible slip: recursing with prec instead of prec + 1 (right-associative).
RhsMinPrecSame(prec) == prec

\* the min_prec the right operand is parsed with
RhsMinPrec(prec) == prec + 1

RECURSIVE statement(_, _)
RECURSIVE parse_binary_expr(_, _, _)
RECURSIVE BinaryLoop(_, _, _, _)
RECURSIVE parse_primary(_, _)
RECURSIVE ArgumentsLoop(_, _, _)
RECURSIVE ParamsLoop(_, _, _)
RECURSIVE BodyLoop(_, _, _)

expression(toks, pos) == parse_binary_expr(toks, pos, 0)

\* the while True loop of parse_binary_expr
BinaryLoop(toks, pos, min_prec, left) ==
    LET tok == current(toks, pos) IN
    IF tok[1] = "OP" /\ tok[2] \in BinaryOps
    THEN LET prec == get_precedence(tok[2]) IN
         IF prec < min_prec THEN Parsed(left, pos)
         ELSE LET op == eat(toks, pos, "OP", "") IN
              IF ~op.ok THEN SyntaxError(pos)
              ELSE Only({IF ~right.ok THEN right
                         ELSE BinaryLoop(toks, right.pos, min_prec,
                                         ASTNode("BinOp", <<op.tok[2]>>,
                                                 <<left, right.node>>))
                         : right \in {parse_binary_expr(toks, op.pos, RhsMinPrec(prec))}})
    ELSE Parsed(left, pos)

parse_binary_expr(toks, pos, min_prec) ==
    Only({IF ~left.ok THEN left ELSE BinaryLoop(toks, left.pos, min_prec, left.node)
          : left \in {parse_primary(toks, pos)}})

\* the argument list after the first expression: (',' expression)*
ArgumentsLoop(toks, pos, args) ==
    IF current(toks, pos)[2] = ","
    THEN LET c == eat(toks, pos, "SEP", ",") IN
         IF ~c.ok THEN [ok |-> FALSE, nodes |-> args, pos |-> pos]
         ELSE Only({IF ~e.ok THEN [ok |-> FALSE, nodes |-> args, pos |-> e.pos]
                    ELSE ArgumentsLoop(toks, e.pos, Append(args, e.node))
                    : e \in {expression(toks, c.pos)}})
    ELSE [ok |-> TRUE, nodes |-> args, pos |-> pos]

\* if self.current()[1] != ')': args.append(self.expression()); while ...
ArgumentsList(toks, pos) ==
    IF current(toks, pos)[2] # ")"
    THEN Only({IF ~e.ok THEN [ok |-> FALSE, nodes |-> <<>>, pos |-> e.pos]
               ELSE ArgumentsLoop(toks, e.pos, <<e.node>>)
               : e \in {expression(toks, pos)}})
    ELSE [ok |-> TRUE, nodes |-> <<>>, pos |-> pos]

arguments(toks, pos) ==
    LET open == eat(toks, pos, "SEP", "(") IN
    IF ~open.ok THEN [ok |-> FALSE, nodes |-> <<>>, pos |-> pos]
    ELSE Only({IF ~rest.ok THEN rest
               ELSE LET close == eat(toks, rest.pos, "SEP", ")") IN
                    IF ~close.ok
                    THEN [ok |-> FALSE, nodes |-> rest.nodes, pos |-> rest.pos]
                    ELSE [ok |-> TRUE, nodes |-> rest.nodes, pos |-> close.pos]
               : rest \in {ArgumentsList(toks, open.pos)}})

parse_primary(toks, pos) ==
    LET tok == current(toks, pos) IN
    IF tok[1] = "NUMBER"
    THEN Parsed(ASTNode("Number", <<tok[2]>>, <<>>), eat(toks, pos, "NUMBER", "").pos)
    ELSE IF tok[1] = "STRING"
    THEN Parsed(ASTNode("String", <<tok[2]>>, <<>>), eat(toks, pos, "STRING", "").pos)
    ELSE IF tok[1] = "KEYWORD" /\ tok[2] \in {"true", "false"}
    THEN Parsed(ASTNode("Bool", <<IF tok[2] = "true" THEN "True" ELSE "False">>, <<>>),
                eat(toks, pos, "KEYWORD", "").pos)
    ELSE IF tok[1] = "KEYWORD" /\ tok[2] = "null"
    THEN Parsed(ASTNode("Null", <<>>, <<>>), eat(toks, pos, "KEYWORD", "").pos)
    ELSE IF tok[1] \in {"IDENT", "FUNCTION"}
    THEN LET name == eat(toks, pos, "", "") IN
         IF current(toks, name.pos)[2] = "("
         THEN Only({IF ~args.ok THEN SyntaxError(args.pos)
                    ELSE Parsed(ASTNode("Call", <<name.tok[2]>>, args.nodes), args.pos)
                    : args \in {arguments(toks, name.pos)}})
         ELSE Parsed(ASTNode("Var", <<name.tok[2]>>, <<>>), name.pos)
    ELSE IF tok[1] = "SEP" /\ tok[2] = "("
    THEN Only({IF ~e.ok THEN e
               ELSE LET close == eat(toks, e.pos, "SEP", ")") IN
                    IF ~close.ok THEN SyntaxError(e.pos) ELSE Parsed(e.node, close.pos)
               : e \in {expression(toks, eat(toks, pos, "SEP", "(").pos)}})
    ELSE IF tok[1] = "OP" /\ tok[2] \in UnaryOps
    THEN LET op == eat(toks, pos, "OP", "") IN
         Only({IF ~operand.ok THEN operand
               ELSE Parsed(ASTNode("UnaryOp", <<op.tok[2]>>, <<operand.node>>),
                           operand.pos)
               : operand \in {parse_primary(toks, op.pos)}})
    ELSE SyntaxError(pos)

\* eat('OP', '='); expression(); eat('SEP', ';'): the tail of var_decl and assignment
InitializerTail(toks, pos) ==
    LET eq == eat(toks, pos, "OP", "=") IN
    IF ~eq.ok THEN SyntaxError(pos)
    ELSE Only({IF ~e.ok THEN e
               ELSE LET semi == eat(toks, e.pos, "SEP", ";") IN
                    IF ~semi.ok THEN SyntaxError(e.pos) ELSE Parsed(e.node, semi.pos)
               : e \in {expression(toks, eq.pos)}})

var_decl(toks, pos) ==
    LET kind == eat(toks, pos, "KEYWORD", "")
        name == eat(toks, kind.pos, "IDENT", "")
    IN
    IF ~kind.ok \/ ~name.ok THEN SyntaxError(pos)
    ELSE Only({IF ~tail.ok THEN tail
               ELSE Parsed(ASTNode("VarDecl", <<kind.tok[2], name.tok[2]>>,
                                   <<tail.node>>), tail.pos)
               : tail \in {InitializerTail(toks, name.pos)}})

assignment(toks, pos) ==
    LET name == eat(toks, pos, "IDENT", "") IN
    IF ~name.ok THEN SyntaxError(pos)
    ELSE Only({IF ~tail.ok THEN tail
               ELSE Parsed(ASTNode("Assign", <<name.tok[2]>>, <<tail.node>>), tail.pos)
               : tail \in {InitializerTail(toks, name.pos)}})

\* the parameter list after the first name: (',' IDENT)*
ParamsLoop(toks, pos, params) ==
    IF current(toks, pos)[2] = ","
    THEN LET c == eat(toks, pos, "SEP", ",")
             p == eat(toks, c.pos, "IDENT", "")
         IN
         IF ~c.ok \/ ~p.ok THEN [ok |-> FALSE, names |-> params, pos |-> pos]
         ELSE ParamsLoop(toks, p.pos, Append(params, p.tok[2]))
    ELSE [ok |-> TRUE, names |-> params, pos |-> pos]

\* while self.current()[1] != '}': body.append(self.statement())
BodyLoop(toks, pos, body) ==
    IF current(toks, pos)[2] # "}"
    THEN Only({IF ~st.ok THEN [ok |-> FALSE, nodes |-> body, pos |-> st.pos]
               ELSE BodyLoop(toks, st.pos, Append(body, st.node))
               : st \in {statement(toks, pos)}})
    ELSE [ok |-> TRUE, nodes |-> body, pos |-> pos]

function_def(toks, pos) ==
    LET fn == eat(toks, pos, "KEYWORD", "fn")
        name == eat(toks, fn.pos, "IDENT", "")
        open == eat(toks, name.pos, "SEP", "(")
        params ==
            IF current(toks, open.pos)[2] # ")"
            THEN LET p == eat(toks, open.pos, "IDENT", "") IN
                 IF ~p.ok THEN [ok |-> FALSE, names |-> <<>>, pos |-> open.pos]
                 ELSE ParamsLoop(toks, p.pos, <<p.tok[2]>>)
            ELSE [ok |-> TRUE, names |-> <<>>, pos |-> open.pos]
    IN
    IF ~fn.ok \/ ~name.ok \/ ~open.ok \/ ~params.ok THEN SyntaxError(pos)
    ELSE LET close == eat(toks, params.pos, "SEP", ")")
             brace == eat(toks, close.pos, "SEP", "{")
         IN
         IF ~close.ok \/ ~brace.ok THEN SyntaxError(params.pos)
         ELSE Only({IF ~body.ok THEN SyntaxError(body.pos)
                    ELSE LET end == eat(toks, body.pos, "SEP", "}") IN
                         IF ~end.ok THEN SyntaxError(body.pos)
                         ELSE Parsed(ASTNode("Function",
                                             <<name.tok[2]>> \o params.names,
                                             body.nodes), end.pos)
                    : body \in {BodyLoop(toks, brace.pos, <<>>)}})

return_stmt(toks, pos) ==
    LET ret == eat(toks, pos, "KEYWORD", "return") IN
    IF ~ret.ok THEN SyntaxError(pos)
    ELSE Only({IF ~e.ok THEN e
               ELSE LET semi == eat(toks, e.pos, "SEP", ";") IN
                    IF ~semi.ok THEN SyntaxError(e.pos)
                    ELSE Parsed(ASTNode("Return", <<>>, <<e.node>>), semi.pos)
               : e \in {expression(toks, ret.pos)}})

statement(toks, pos) ==
    LET tok == current(toks, pos) IN
    IF tok[1] = "KEYWORD" /\ tok[2] \in {"let", "mut", "const"} THEN var_decl(toks, pos)
    ELSE IF tok[1] = "KEYWORD" /\ tok[2] = "fn" THEN function_def(toks, pos)
    ELSE IF tok[1] = "KEYWORD" /\ tok[2] = "return" THEN return_stmt(toks, pos)
    ELSE IF tok[1] \in {"IDENT", "FUNCTION"} /\ peek(toks, pos)[2] = "("
    THEN LET name == eat(toks, pos, "", "") IN
         Only({IF ~args.ok THEN SyntaxError(args.pos)
               ELSE LET semi == eat(toks, args.pos, "SEP", ";") IN
                    IF ~semi.ok THEN SyntaxError(args.pos)
                    ELSE Parsed(ASTNode("Call", <<name.tok[2]>>, args.nodes), semi.pos)
               : args \in {arguments(toks, name.pos)}})
    ELSE IF tok[1] \in {"IDENT", "FUNCTION"} /\ peek(toks, pos)[2] = "="
    THEN assignment(toks, pos)
    ELSE SyntaxError(pos)

\* while not self.at_end(): nodes.append(self.statement())
RECURSIVE ParseLoop(_, _, _)
ParseLoop(toks, pos, nodes) ==
    IF at_end(toks, pos) THEN Parsed(ASTNode("Program", <<>>, nodes), pos)
    ELSE Only({IF ~st.ok THEN st ELSE ParseLoop(toks, st.pos, Append(nodes, st.node))
               : st \in {statement(toks, pos)}})

parse(toks) == ParseLoop(toks, 1, <<>>)

(***************************************************************************)
(* semantic.py                                                             *)
(*                                                                         *)
(* The analyzer state is a record:                                         *)
(*   scopes    the chain global_scope .. current_scope, innermost last;    *)
(*             a SymbolTable maps a name to its VariableInfo               *)
(*   errors    the SemanticError list (message, name, detail)              *)
(*   warnings  the warning list                                            *)
(*   exc       "" or the exception that left analyze()                     *)
(*   log       history: the reads, declarations and assignments visited,   *)
(*             in visit order                                              *)
(* An error and a log entry carry "at", the path of the visited node from  *)
(* the Program node (child indices): history only, the code has no such    *)
(* field (node.line is never set, so every error's line is None).          *)
(***************************************************************************)
VariableInfo(var_type, kind, is_initialized) ==
    [var_type |-> var_type, kind |-> kind, is_initialized |-> is_initialized,
     is_used |-> FALSE]

is_mutable(info) == info.kind = "mut"

is_const(info) == info.kind = "const"

EmptyTable == [n \in {} |-> VariableInfo("unknown", "let", FALSE)]

BUILTIN_FUNCTIONS ==
    [print |-> "void", input |-> "string", to_string |-> "string", to_int |-> "int",
     to_float |-> "float", abs |-> "number", min |-> "number", max |-> "number",
     sqrt |-> "float", pow |-> "number", len |-> "int", assert |-> "void",
     panic |-> "void"]

SemanticAnalyzer ==
    [scopes |-> <<EmptyTable>>, errors |-> <<>>, warnings |-> <<>>, exc |-> "",
     log |-> <<>>]

SemanticError(msg, name, detail, at) ==
    [msg |-> msg, name |-> name, detail |-> detail, at |-> at]

\* SemanticAnalyzer.error
error(an, msg, name, detail, at) ==
    [an EXCEPT !.errors = Append(@, SemanticError(msg, name, detail, at))]

Logged(an, ev, name, at, info) ==
    [an EXCEPT !.log = Append(@, [ev |-> ev, name |-> name, at |-> at, info |-> info])]

\* A plausible slip: the scopes searched from the global scope inward.
FoundInOutermost(scopes, i, name) ==
    IF \A k \in 1..i : name \notin DOMAIN scopes[k] THEN 0
    ELSE CHOOSE k \in 1..i :
             /\ name \in DOMAIN scopes[k]
             /\ \A j \in 1..(k - 1) : name \notin DOMAIN scopes[j]

\* the scope SymbolTable.lookup finds the name in, walking outward: 0 for None
RECURSIVE FoundIn(_, _, _)
FoundIn(scopes, i, name) ==
    IF i = 0 THEN 0
    ELSE IF name \in DOMAIN scopes[i] THEN i
    ELSE FoundIn(scopes, i - 1, name)

\* SymbolTable.lookup from the current scope: the scope index and the chain
\* with the symbol marked used
SymbolTable_lookup(scopes, name) ==
    LET i == FoundIn(scopes, Len(scopes), name) IN
    [found |-> i,
     scopes |-> IF i = 0 THEN scopes ELSE [scopes EXCEPT ![i][name].is_used = TRUE]]

\* SymbolTable.declare on the current scope: raised = TRUE for the SemanticError
SymbolTable_declare(scopes, name, var_type, kind, is_initialized) ==
    LET cur == scopes[Len(scopes)] IN
    IF name \in DOMAIN cur THEN [raised |-> TRUE, scopes |-> scopes]
    ELSE [raised |-> FALSE,
          scopes |-> [scopes EXCEPT ![Len(scopes)] =
                          (name :> VariableInfo(var_type, kind, is_initialized)) @@ cur]]

get_unused_variables(table) ==
    {n \in DOMAIN table : ~table[n].is_used /\ n # "_"}

enter_scope(an) ==
    Logged([an EXCEPT !.scopes = Append(@, EmptyTable)], "enter", "", <<>>, <<>>)

\* exit_scope: building the first warning reads var.line, which VariableInfo
\* never stores, so an unused variable raises AttributeError
exit_scope(an) ==
    LET unused == get_unused_variables(an.scopes[Len(an.scopes)]) IN
    IF unused # {} THEN [an EXCEPT !.exc = "AttributeError"]
    ELSE IF Len(an.scopes) > 1
    THEN Logged([an EXCEPT !.scopes = SubSeq(an.scopes, 1, Len(an.scopes) - 1)],
                "exit", "", <<>>, <<>>)
    ELSE an

\* A plausible slip: only identical types taken as compatible.
check_type_compatibility_strict(expected, actual) == expected = actual

check_type_compatibility(expected, actual) ==
    \/ expected = actual
    \/ expected = "float" /\ actual = "int"
    \/ expected = "number" /\ actual \in {"int", "float"}

\* "." in str(node.value)
RECURSIVE HasDot(_, _)
HasDot(text, i) ==
    IF i > Len(text) THEN FALSE
    ELSE IF Ch(text, i) = "." THEN TRUE
    ELSE HasDot(text, i + 1)

\* infer_type: the type, and the scope chain after its lookups (which mark used)
RECURSIVE infer_type(_, _)
infer_type(node, scopes) ==
    CASE node.type = "Number" ->
            [type |-> IF HasDot(node.value[1], 1) THEN "float" ELSE "int",
             scopes |-> scopes]
      [] node.type = "String" -> [type |-> "string", scopes |-> scopes]
      [] node.type = "Bool" -> [type |-> "bool", scopes |-> scopes]
      [] node.type = "Var" ->
            LET r == SymbolTable_lookup(scopes, node.value[1]) IN
            [type |-> IF r.found # 0
                      THEN r.scopes[r.found][node.value[1]].var_type
                      ELSE "unknown",
             scopes |-> r.scopes]
      [] node.type = "BinOp" ->
            LET l == infer_type(node.children[1], scopes)
                r == infer_type(node.children[2], l.scopes)
            IN
            [type |-> IF node.value[1] = "+" /\ "string" \in {l.type, r.type}
                      THEN "string"
                      ELSE IF l.type = "float" \/ r.type = "float" THEN "float"
                      ELSE IF l.type = "int" /\ r.type = "int" THEN "int"
                      ELSE "unknown",
             scopes |-> r.scopes]
      [] node.type = "UnaryOp" -> infer_type(node.children[1], scopes)
      [] node.type = "Call" ->
            [type |-> IF node.value[1] \in DOMAIN BUILTIN_FUNCTIONS
                      THEN BUILTIN_FUNCTIONS[node.value[1]]
                      ELSE "unknown",
             scopes |-> scopes]
      [] OTHER -> [type |-> "unknown", scopes |-> scopes]

RECURSIVE visit(_, _, _)
RECURSIVE VisitAll(_, _, _, _)
RECURSIVE DeclareParams(_, _, _)

\* for child in children: self.visit(child); an exception ends the loop
VisitAll(an, children, at, k) ==
    IF k > Len(children) \/ an.exc # "" THEN an
    ELSE VisitAll(visit(an, children[k], Append(at, k)), children, at, k + 1)

visit_program(an, node, at) == VisitAll(an, node.children, at, 1)

visit_vardecl(an, node, at) ==
    LET kind == node.value[1]
        name == node.value[2]
        visited == IF Len(node.children) > 0
                   THEN visit(an, node.children[1], Append(at, 1)) ELSE an
        init == IF Len(node.children) > 0
                THEN infer_type(node.children[1], visited.scopes)
                ELSE [type |-> "unknown", scopes |-> visited.scopes]
        decl == SymbolTable_declare(init.scopes, name, init.type, kind,
                                    Len(node.children) > 0)
    IN
    IF visited.exc # "" THEN visited
    ELSE IF decl.raised
    THEN error([visited EXCEPT !.scopes = init.scopes],
               "already declared in this scope", name, <<>>, at)
    ELSE Logged([visited EXCEPT !.scopes = decl.scopes], "declare", name, at,
                <<kind, IF Len(node.children) > 0 THEN "initialized" ELSE "uninitialized">>)

\* A plausible slip: the mutability check left out of visit_assign.
MutabilityErrorNone(an, info, name, at) == an

\* the mutability check of visit_assign
MutabilityError(an, info, name, at) ==
    IF ~is_mutable(info)
    THEN IF is_const(info)
         THEN error(an, "Cannot assign to const variable", name, <<>>, at)
         ELSE error(an, "Cannot assign to immutable variable", name, <<>>, at)
    ELSE an

visit_assign(an, node, at) ==
    LET name == node.value[1]
        look == SymbolTable_lookup(an.scopes, name)
    IN
    IF look.found = 0
    THEN error(an, "not declared", name, <<>>, at)
    ELSE LET var_info == look.scopes[look.found][name]
             checked == MutabilityError(
                            Logged([an EXCEPT !.scopes = look.scopes], "assign", name,
                                   at, <<var_info.kind, var_info.var_type>>),
                            var_info, name, at)
             visited == IF Len(node.children) > 0
                        THEN visit(checked, node.children[1], Append(at, 1))
                        ELSE checked
             rhs == IF Len(node.children) > 0 /\ visited.exc = ""
                    THEN infer_type(node.children[1], visited.scopes)
                    ELSE [type |-> "unknown", scopes |-> visited.scopes]
             typed == IF Len(node.children) > 0
                         /\ var_info.var_type # "unknown"
                         /\ ~check_type_compatibility(var_info.var_type, rhs.type)
                      THEN error([visited EXCEPT !.scopes = rhs.scopes],
                                 "Type mismatch", name,
                                 <<rhs.type, var_info.var_type>>, at)
                      ELSE [visited EXCEPT !.scopes = rhs.scopes]
         IN
         IF visited.exc # "" THEN visited
         ELSE [typed EXCEPT !.scopes[look.found][name].is_initialized = TRUE]

\* A plausible slip: the initialization check left out of visit_var.
InitializationErrorNone(an, info, name, at) == an

\* the elif branch of visit_var
InitializationError(an, info, name, at) ==
    IF ~info.is_initialized
    THEN error(an, "used before initialization", name, <<>>, at)
    ELSE an

visit_var(an, node, at) ==
    LET name == node.value[1]
        look == SymbolTable_lookup(an.scopes, name)
        seen == Logged([an EXCEPT !.scopes = look.scopes], "read", name, at, <<>>)
    IN
    IF look.found = 0 THEN error(seen, "not declared", name, <<>>, at)
    ELSE InitializationError(seen, look.scopes[look.found][name], name, at)

visit_binop(an, node, at) == VisitAll(an, node.children, at, 1)

visit_unaryop(an, node, at) == VisitAll(an, node.children, at, 1)

visit_call(an, node, at) ==
    LET func_name == node.value[1] IN
    IF func_name \in DOMAIN BUILTIN_FUNCTIONS
    THEN VisitAll(an, node.children, at, 1)
    ELSE LET look == SymbolTable_lookup(an.scopes, func_name)
             looked == [an EXCEPT !.scopes = look.scopes]
             resolved ==
                 IF look.found = 0
                    \/ look.scopes[look.found][func_name].var_type # "function"
                 THEN error(looked, "Unknown function", func_name, <<>>, at)
                 ELSE looked
         IN
         VisitAll(resolved, node.children, at, 1)

\* for param in params: declare(...); a duplicate raises out of visit_function
DeclareParams(an, params, k) ==
    IF k > Len(params) THEN an
    ELSE LET decl == SymbolTable_declare(an.scopes, params[k], "unknown", "let", TRUE) IN
         IF decl.raised THEN [an EXCEPT !.exc = "SemanticError"]
         ELSE DeclareParams(
                  Logged([an EXCEPT !.scopes = decl.scopes], "declare", params[k],
                         <<>>, <<"let", "initialized">>),
                  params, k + 1)

visit_function(an, node, at) ==
    LET name == node.value[1]
        params == SubSeq(node.value, 2, Len(node.value))
        decl == SymbolTable_declare(an.scopes, name, "function", "const", FALSE)
        declared ==
            IF decl.raised
            THEN error(an, "already declared in this scope", name, <<>>, at)
            ELSE Logged([an EXCEPT !.scopes = decl.scopes], "declare", name, at,
                        <<"const", "uninitialized">>)
        bound == DeclareParams(enter_scope(declared), params, 1)
        body == IF bound.exc # "" THEN bound ELSE VisitAll(bound, node.children, at, 1)
    IN
    IF body.exc # "" THEN body ELSE exit_scope(body)

generic_visit(an, node, at) ==
    error(an, "Unknown AST node type", node.type, <<>>, at)

\* visit: getattr(self, "visit_" + node.type.lower(), self.generic_visit)
visit(an, node, at) ==
    CASE node.type = "Program" -> visit_program(an, node, at)
      [] node.type = "VarDecl" -> visit_vardecl(an, node, at)
      [] node.type = "Assign" -> visit_assign(an, node, at)
      [] node.type = "Var" -> visit_var(an, node, at)
      [] node.type = "BinOp" -> visit_binop(an, node, at)
      [] node.type = "UnaryOp" -> visit_unaryop(an, node, at)
      [] node.type = "Call" -> visit_call(an, node, at)
      [] node.type \in {"Number", "String", "Bool"} -> an
      [] node.type = "Function" -> visit_function(an, node, at)
      [] OTHER -> generic_visit(an, node, at)

\* analyze(ast) on a fresh SemanticAnalyzer
analyze(tree) == visit(SemanticAnalyzer, tree, <<>>)

(***************************************************************************)
(* interpreter.py: the values the heap holds.                              *)
(*                                                                         *)
(* A Python value is [k, i, d, s]: k its type ("int", "bool", "float",     *)
(* "str", "none"), i/d a number (d = 1 for int and bool; a float is kept   *)
(* as the exact fraction i/d in lowest terms, d > 0), s the text of a str. *)
(* Results Python computes that this encoding cannot express (an           *)
(* irrational square root, % formatting of a str, the repr of a float      *)
(* with more than RealDigits decimals) are reported as the exception       *)
(* "Unmodelled", which no program of the model raises.                     *)
(***************************************************************************)
IntV(n) == [k |-> "int", i |-> n, d |-> 1, s |-> ""]

BoolV(b) == [k |-> "bool", i |-> IF b THEN 1 ELSE 0, d |-> 1, s |-> ""]

StrV(t) == [k |-> "str", i |-> 0, d |-> 1, s |-> t]

NoneV == [k |-> "none", i |-> 0, d |-> 1, s |-> ""]

Abs(n) == IF n < 0 THEN -n ELSE n

RECURSIVE Gcd(_, _)
Gcd(a, b) == IF b = 0 THEN a ELSE Gcd(b, a % b)

\* the float n/d, d # 0, in lowest terms
FloatV(n, d) ==
    LET g == Gcd(Abs(n), Abs(d))
        sgn == IF d < 0 THEN -1 ELSE 1
    IN [k |-> "float", i |-> sgn * (n \div g), d |-> sgn * (d \div g), s |-> ""]

IsNum(v) == v.k \in {"int", "bool", "float"}

IsIntLike(v) == v.k \in {"int", "bool"}

\* the result of arithmetic on two numbers: float if either is, else int
NumV(n, d, l, r) ==
    IF l.k = "float" \/ r.k = "float" THEN FloatV(n, d) ELSE IntV(n \div d)

\* bool(v)
Truthy(v) ==
    CASE v.k = "str" -> v.s # ""
      [] v.k = "none" -> FALSE
      [] OTHER -> v.i # 0

\* the outcome of a Python expression: a value, or a raised exception
Val(v) == [exc |-> "", v |-> v]

Raise(e) == [exc |-> e, v |-> NoneV]

AsciiPrintable ==
    " !\"#$%&'()*+,-./0123456789:;<=>?@ABCDEFGHIJKLMNOPQRSTUVWXYZ[\\]^_abcdefghijklmnopqrstuvwxyz{|}~"

\* the rank of a character in ASCII order among the printable ones (the
\* backquote left out: a TLA+ string cannot hold it), 0 for any other
RECURSIVE OrdFrom(_, _)
OrdFrom(c, n) ==
    IF n > Len(AsciiPrintable) THEN 0
    ELSE IF Ch(AsciiPrintable, n) = c THEN n
    ELSE OrdFrom(c, n + 1)

Ord(c) == OrdFrom(c, 1)

\* a < b on str: lexicographic by character
RECURSIVE StrLess(_, _, _)
StrLess(a, b, n) ==
    IF n > Len(b) THEN FALSE
    ELSE IF n > Len(a) THEN TRUE
    ELSE IF Ch(a, n) # Ch(b, n) THEN Ord(Ch(a, n)) < Ord(Ch(b, n))
    ELSE StrLess(a, b, n + 1)

\* a < b on numbers i/d
NumLess(a, b) == a.i * b.d < b.i * a.d

NumEq(a, b) == a.i * b.d = b.i * a.d

\* Python ==
PyEq(l, r) ==
    IF IsNum(l) /\ IsNum(r) THEN NumEq(l, r)
    ELSE IF l.k = "str" /\ r.k = "str" THEN l.s = r.s
    ELSE l.k = "none" /\ r.k = "none"

\* Python <: TypeError unless both are numbers or both are str
PyLess(l, r) ==
    IF IsNum(l) /\ IsNum(r) THEN Val(BoolV(NumLess(l, r)))
    ELSE IF l.k = "str" /\ r.k = "str" THEN Val(BoolV(StrLess(l.s, r.s, 1)))
    ELSE Raise("TypeError")

Not(r) == IF r.exc # "" THEN r ELSE Val(BoolV(r.v.i = 0))

\* s * n on str
RECURSIVE Repeat(_, _)
Repeat(t, n) == IF n <= 0 THEN "" ELSE t \o Repeat(t, n - 1)

\* floor(n / d) for any d # 0
FloorDiv(n, d) == IF d > 0 THEN n \div d ELSE (-n) \div (-d)

\* l % r on numbers, r # 0: l - floor(l / r) * r, the sign of the divisor
PyMod(l, r) ==
    LET q == FloorDiv(l.i * r.d, l.d * r.i) IN
    NumV(l.i * r.d - q * r.i * l.d, l.d * r.d, l, r)

\* the if/elif chain of eval(BinOp), with Python's operators
ApplyBinOp(op, l, r) ==
    CASE op = "+" ->
            IF IsNum(l) /\ IsNum(r)
            THEN Val(NumV(l.i * r.d + r.i * l.d, l.d * r.d, l, r))
            ELSE IF l.k = "str" /\ r.k = "str" THEN Val(StrV(l.s \o r.s))
            ELSE Raise("TypeError")
      [] op = "-" ->
            IF IsNum(l) /\ IsNum(r)
            THEN Val(NumV(l.i * r.d - r.i * l.d, l.d * r.d, l, r))
            ELSE Raise("TypeError")
      [] op = "*" ->
            IF IsNum(l) /\ IsNum(r) THEN Val(NumV(l.i * r.i, l.d * r.d, l, r))
            ELSE IF l.k = "str" /\ IsIntLike(r) THEN Val(StrV(Repeat(l.s, r.i)))
            ELSE IF IsIntLike(l) /\ r.k = "str" THEN Val(StrV(Repeat(r.s, l.i)))
            ELSE Raise("TypeError")
      [] op = "/" ->
            IF IsNum(l) /\ IsNum(r)
            THEN IF r.i = 0 THEN Raise("ZeroDivisionError")
                 ELSE Val(FloatV(l.i * r.d, l.d * r.i))
            ELSE Raise("TypeError")
      [] op = "%" ->
            IF IsNum(l) /\ IsNum(r)
            THEN IF r.i = 0 THEN Raise("ZeroDivisionError") ELSE Val(PyMod(l, r))
            ELSE IF l.k = "str"
            THEN IF \E n \in 1..Len(l.s) : Ch(l.s, n) = "%"
                 THEN Raise("Unmodelled") ELSE Raise("TypeError")
            ELSE Raise("TypeError")
      [] op = "==" -> Val(BoolV(PyEq(l, r)))
      [] op = "!=" -> Val(BoolV(~PyEq(l, r)))
      [] op = "<" -> PyLess(l, r)
      [] op = ">" -> PyLess(r, l)
      [] op = "<=" -> Not(PyLess(r, l))
      [] op = ">=" -> Not(PyLess(l, r))
      [] op = "&&" -> Val(BoolV(Truthy(l) /\ Truthy(r)))
      [] op = "||" -> Val(BoolV(Truthy(l) \/ Truthy(r)))
      [] OTHER -> Raise("RuntimeError")

\* the if/elif chain of eval(UnaryOp)
ApplyUnaryOp(op, v) ==
    CASE op = "+" ->
            IF IsNum(v) THEN Val(NumV(v.i, v.d, v, v)) ELSE Raise("TypeError")
      [] op = "-" ->
            IF IsNum(v) THEN Val(NumV(-v.i, v.d, v, v)) ELSE Raise("TypeError")
      [] op = "!" -> Val(BoolV(~Truthy(v)))
      [] op = "++" ->
            IF IsNum(v) THEN Val(NumV(v.i + v.d, v.d, v, v)) ELSE Raise("TypeError")
      [] op = "--" ->
            IF IsNum(v) THEN Val(NumV(v.i - v.d, v.d, v, v)) ELSE Raise("TypeError")
      [] OTHER -> Raise("RuntimeError")

(***************************************************************************)
(* Python's conversions between numbers and text: int(), float(), str().   *)
(***************************************************************************)
DigitChars == "0123456789"

\* the value of a digit character
DigitVal(c) == OrdFrom(c, 17) - 17

\* the number a run of digits t[a..b] denotes, most significant first
RECURSIVE DigitsVal(_, _, _, _)
DigitsVal(t, a, b, acc) ==
    IF a > b THEN acc ELSE DigitsVal(t, a + 1, b, acc * 10 + DigitVal(Ch(t, a)))

RECURSIVE Pow10(_)
Pow10(n) == IF n = 0 THEN 1 ELSE 10 * Pow10(n - 1)

\* str(n) for n >= 0
RECURSIVE NatToStr(_)
NatToStr(n) ==
    IF n < 10 THEN Ch(DigitChars, n + 1)
    ELSE NatToStr(n \div 10) \o Ch(DigitChars, (n % 10) + 1)

\* str(n) on int
IntToStr(n) == IF n < 0 THEN "-" \o NatToStr(-n) ELSE NatToStr(n)

\* int(text) and float(text) on text of the shape [-+]?\d+(\.\d+)?, which is
\* the shape of every NUMBER token; surrounding blanks are stripped first
ParseNumber(text) ==
    LET a == SpanWhile(text, 1, whitespace \cup {"\n"})
        d == IF Ch(text, a) \in {"-", "+"} THEN a + 1 ELSE a
        e == SpanWhile(text, d, Digits)
        f == IF Ch(text, e) = "." THEN SpanWhile(text, e + 1, Digits) ELSE e
        z == SpanWhile(text, f, whitespace \cup {"\n"})
        sgn == IF Ch(text, a) = "-" THEN -1 ELSE 1
    IN
    IF e = d \/ z # Len(text) + 1 \/ (Ch(text, e) = "." /\ f = e + 1)
    THEN Raise("ValueError")
    ELSE IF f = e
    THEN Val(IntV(sgn * DigitsVal(text, d, e - 1, 0)))
    ELSE Val(FloatV(sgn * (DigitsVal(text, d, e - 1, 0) * Pow10(f - e - 1)
                           + DigitsVal(text, e + 1, f - 1, 0)),
                    Pow10(f - e - 1)))

RealDigits == 4      \* decimals of a float the model can print

\* the least k <= RealDigits with d dividing 10^k, RealDigits + 1 if none
RECURSIVE DecimalsOf(_, _)
DecimalsOf(d, k) ==
    IF k > RealDigits THEN k
    ELSE IF Pow10(k) % d = 0 THEN k
    ELSE DecimalsOf(d, k + 1)

\* t left-padded with zeros to n characters
RECURSIVE ZeroPad(_, _)
ZeroPad(t, n) == IF Len(t) >= n THEN t ELSE ZeroPad("0" \o t, n)

\* str(v)
PyStr(v) ==
    CASE v.k = "int" -> Val(StrV(IntToStr(v.i)))
      [] v.k = "bool" -> Val(StrV(IF v.i = 1 THEN "True" ELSE "False"))
      [] v.k = "none" -> Val(StrV("None"))
      [] v.k = "str" -> Val(v)
      [] OTHER ->
            LET k == IF v.d = 1 THEN 1 ELSE DecimalsOf(v.d, 1)
                scaled == Abs(v.i) * (Pow10(k) \div v.d)
            IN
            IF k > RealDigits THEN Raise("Unmodelled")
            ELSE Val(StrV((IF v.i < 0 THEN "-" ELSE "")
                          \o NatToStr(scaled \div Pow10(k)) \o "."
                          \o ZeroPad(NatToStr(scaled % Pow10(k)), k)))

\* int(v)
PyInt(v) ==
    CASE v.k \in {"int", "bool"} -> Val(IntV(v.i))
      [] v.k = "float" ->
            Val(IntV(IF v.i >= 0 THEN v.i \div v.d ELSE -((-v.i) \div v.d)))
      [] v.k = "str" ->
            LET r == ParseNumber(v.s) IN
            IF r.exc # "" THEN r
            ELSE IF r.v.k = "int" THEN r
            ELSE Raise("ValueError")
      [] OTHER -> Raise("TypeError")

\* float(v); text Python accepts beyond [-+]?\d+(\.\d+)? ("1e3", "inf", ".5")
\* is not modelled
PyFloat(v) ==
    CASE v.k \in {"int", "bool", "float"} -> Val(FloatV(v.i, v.d))
      [] v.k = "str" ->
            LET r == ParseNumber(v.s) IN
            IF r.exc # "" THEN Raise("Unmodelled") ELSE Val(FloatV(r.v.i, r.v.d))
      [] OTHER -> Raise("TypeError")

\* min(args) / max(args) on a list: the first least (greatest) element
RECURSIVE PyMinMax(_, _, _, _)
PyMinMax(isMin, args, k, best) ==
    IF k > Len(args) THEN Val(best)
    ELSE LET lt == IF isMin THEN PyLess(args[k], best) ELSE PyLess(best, args[k]) IN
         IF lt.exc # "" THEN lt
         ELSE PyMinMax(isMin, args, k + 1, IF lt.v.i = 1 THEN args[k] ELSE best)

\* b ** e for an int e >= 0
RECURSIVE PowNat(_, _)
PowNat(b, e) ==
    IF e = 0 THEN IntV(1)
    ELSE LET r == PowNat(b, e - 1) IN NumV(b.i * r.i, b.d * r.d, b, b)

\* the root of a perfect square n, or -1
IntSqrt(n) ==
    IF \E r \in 0..n : r * r = n THEN CHOOSE r \in 0..n : r * r = n ELSE -1

(***************************************************************************)
(* interpreter.py: Heap and the environment helpers.                       *)
(*                                                                         *)
(* The interpreter state is a record:                                      *)
(*   memory, ref_count, next_id      the Heap                              *)
(*   env_stack                       the frames, innermost last            *)
(*   out, stdin                      what print wrote, what input reads    *)
(*   calls, lookups                  history: the user-defined calls that  *)
(*                                   returned, the names resolved          *)
(* What a frame binds, and what eval returns, is a reference: a heap id,   *)
(* None, or a Function ASTNode.                                            *)
(***************************************************************************)
IdRef(n) == [tag |-> "id", id |-> n, fn |-> NoNode]

NoneRef == [tag |-> "none", id |-> -1, fn |-> NoNode]

FnRef(node) == [tag |-> "fn", id |-> -1, fn |-> node]

EmptyEnv == [n \in {} |-> NoneRef]

Interpreter ==
    [memory |-> [n \in {} |-> NoneV], ref_count |-> [n \in {} |-> 0], next_id |-> 0,
     env_stack |-> <<EmptyEnv>>, out |-> <<>>, stdin |-> <<"7">>,
     calls |-> {}, lookups |-> {}]

\* Heap.allocate: the new id is the old next_id
allocate(it, value) ==
    [it EXCEPT !.memory = (it.next_id :> value) @@ @,
               !.ref_count = (it.next_id :> 1) @@ @,
               !.next_id = @ + 1]

\* Heap.retain
retain(it, ref) ==
    IF ref.tag = "id" /\ ref.id \in DOMAIN it.ref_count
    THEN [it EXCEPT !.ref_count[ref.id] = @ + 1]
    ELSE it

\* A plausible slip: release decrements the count and never deletes the entry.
release_keep(it, ref) ==
    IF ref.tag = "id" /\ ref.id \in DOMAIN it.ref_count
    THEN [it EXCEPT !.ref_count[ref.id] = @ - 1]
    ELSE it

\* Heap.release
release(it, ref) ==
    IF ref.tag = "id" /\ ref.id \in DOMAIN it.ref_count
    THEN IF it.ref_count[ref.id] - 1 <= 0
         THEN [it EXCEPT !.memory = [n \in DOMAIN it.memory \ {ref.id} |-> it.memory[n]],
                         !.ref_count = [n \in DOMAIN it.ref_count \ {ref.id} |->
                                            it.ref_count[n]]]
         ELSE [it EXCEPT !.ref_count[ref.id] = @ - 1]
    ELSE it

\* Heap.get: KeyError for None, a Function node or an id not in memory
get(it, ref) ==
    IF ref.tag = "id" /\ ref.id \in DOMAIN it.memory
    THEN Val(it.memory[ref.id]) ELSE Raise("KeyError")

push_env(it) == [it EXCEPT !.env_stack = Append(@, EmptyEnv)]

\* for obj_id in local_env.values(): self.heap.release(obj_id)
RECURSIVE ReleaseAll(_, _, _)
ReleaseAll(it, env, names) ==
    IF names = {} THEN it
    ELSE LET n == CHOOSE m \in names : TRUE IN
         ReleaseAll(release(it, env[n]), env, names \ {n})

pop_env(it) ==
    LET local_env == it.env_stack[Len(it.env_stack)] IN
    ReleaseAll([it EXCEPT !.env_stack = SubSeq(@, 1, Len(@) - 1)],
               local_env, DOMAIN local_env)

current_env(it) == it.env_stack[Len(it.env_stack)]

\* the frame, searched innermost first, that binds the name: 0 if none does
RECURSIVE FrameOf(_, _, _)
FrameOf(env_stack, i, name) ==
    IF i = 0 THEN 0
    ELSE IF name \in DOMAIN env_stack[i] THEN i
    ELSE FrameOf(env_stack, i - 1, name)

\* A plausible slip: the frames searched outermost first.
ResolveOutermost(env_stack, name) ==
    IF \A i \in 1..Len(env_stack) : name \notin DOMAIN env_stack[i] THEN 0
    ELSE CHOOSE i \in 1..Len(env_stack) :
             /\ name \in DOMAIN env_stack[i]
             /\ \A j \in 1..(i - 1) : name \notin DOMAIN env_stack[j]

\* for env in reversed(self.env_stack): if name in env
Resolve(env_stack, name) == FrameOf(env_stack, Len(env_stack), name)

Resolved(it, what, name, frame) ==
    [it EXCEPT !.lookups = @ \cup {[what |-> what, name |-> name, frame |-> frame,
                                    depth |-> Len(it.env_stack)]}]

\* Interpreter.lookup: frame = 0 stands for the RuntimeError
lookup(it, name) ==
    LET f == Resolve(it.env_stack, name) IN
    [frame |-> f,
     ref |-> IF f = 0 THEN NoneRef ELSE it.env_stack[f][name],
     it |-> IF f = 0 THEN it ELSE Resolved(it, "lookup", name, f)]

\* binding a name in the innermost frame: self.current_env()[name] = ref
Bind(it, name, ref) ==
    [it EXCEPT !.env_stack[Len(it.env_stack)] = (name :> ref) @@ @]

\* Interpreter.assign
assign(it, name, ref) ==
    LET f == Resolve(it.env_stack, name) IN
    IF f # 0
    THEN LET released == release(it, it.env_stack[f][name])
             rebound == [released EXCEPT !.env_stack[f][name] = ref]
         IN Resolved(retain(rebound, ref), "assign", name, f)
    ELSE retain(Bind(it, name, ref), ref)

(***************************************************************************)
(* interpreter.py: the built-in functions, on dereferenced arguments.      *)
(* A built-in returns [exc, ref, it]: the exception it raised, or the      *)
(* reference it returned and the state it left.                            *)
(***************************************************************************)
Returned(it, ref) == [exc |-> "", msg |-> "", ref |-> ref, it |-> it]

Raised(it, exc, msg) == [exc |-> exc, msg |-> msg, ref |-> NoneRef, it |-> it]

\* lambda args: self.heap.allocate(<r>), for the outcome r of a Python expression
Allocated(it, r) ==
    IF r.exc # "" THEN Raised(it, r.exc, "")
    ELSE Returned(allocate(it, r.v), IdRef(it.next_id))

\* " ".join(str(a) for a in args), as print(*args) writes it
RECURSIVE JoinStr(_, _, _)
JoinStr(args, k, acc) ==
    IF k > Len(args) THEN Val(StrV(acc))
    ELSE LET t == PyStr(args[k]) IN
         IF t.exc # "" THEN t
         ELSE JoinStr(args, k + 1, IF k = 1 THEN t.v.s ELSE acc \o " " \o t.v.s)

_builtin_print(it, args) ==
    LET line == JoinStr(args, 1, "") IN
    IF line.exc # "" THEN Raised(it, line.exc, "")
    ELSE Returned([it EXCEPT !.out = Append(@, line.v.s)], NoneRef)

\* input(): the next line of stdin, EOFError when there is none
_builtin_input(it, args) ==
    LET prompt == IF Len(args) > 0 THEN PyStr(args[1]) ELSE Val(StrV("")) IN
    IF prompt.exc # "" THEN Raised(it, prompt.exc, "")
    ELSE IF it.stdin = <<>> THEN Raised(it, "EOFError", "")
    ELSE Allocated([it EXCEPT !.stdin = Tail(@)], Val(StrV(Head(it.stdin))))

_builtin_assert(it, args) ==
    IF Len(args) = 0 THEN Raised(it, "IndexError", "")
    ELSE IF ~Truthy(args[1]) THEN Raised(it, "RuntimeError", "Assertion failed")
    ELSE Returned(it, NoneRef)

_builtin_panic(it, args) ==
    IF Len(args) = 0 THEN Raised(it, "IndexError", "")
    ELSE Raised(it, "RuntimeError", args[1].s)

builtins ==
    {"print", "input", "to_int", "to_float", "to_string", "abs", "min", "max",
     "sqrt", "pow", "len", "assert", "panic"}

\* self.builtins[func_name](args)
CallBuiltin(it, func_name, args) ==
    CASE func_name = "print" -> _builtin_print(it, args)
      [] func_name = "input" -> _builtin_input(it, args)
      [] func_name = "assert" -> _builtin_assert(it, args)
      [] func_name = "panic" -> _builtin_panic(it, args)
      [] func_name \in {"min", "max"} ->
            IF Len(args) = 0 THEN Raised(it, "ValueError", "")
            ELSE Allocated(it, PyMinMax(func_name = "min", args, 2, args[1]))
      [] Len(args) = 0 -> Raised(it, "IndexError", "")
      [] func_name = "to_int" -> Allocated(it, PyInt(args[1]))
      [] func_name = "to_float" -> Allocated(it, PyFloat(args[1]))
      [] func_name = "to_string" -> Allocated(it, PyStr(args[1]))
      [] func_name = "abs" ->
            Allocated(it, IF IsNum(args[1])
                          THEN Val(NumV(Abs(args[1].i), args[1].d, args[1], args[1]))
                          ELSE Raise("TypeError"))
      [] func_name = "sqrt" ->
            Allocated(it, IF ~IsNum(args[1]) THEN Raise("TypeError")
                          ELSE IF args[1].i < 0 THEN Raise("ValueError")
                          ELSE IF IntSqrt(args[1].i) < 0 \/ IntSqrt(args[1].d) < 0
                          THEN Raise("Unmodelled")
                          ELSE Val(FloatV(IntSqrt(args[1].i), IntSqrt(args[1].d))))
      [] func_name = "pow" ->
            Allocated(it, IF Len(args) < 2 THEN Raise("IndexError")
                          ELSE IF ~IsNum(args[1]) \/ ~IsNum(args[2]) THEN Raise("TypeError")
                          ELSE IF ~IsIntLike(args[2]) THEN Raise("Unmodelled")
                          ELSE IF args[2].i >= 0 THEN Val(PowNat(args[1], args[2].i))
                          ELSE IF args[1].i = 0 THEN Raise("ZeroDivisionError")
                          ELSE LET r == PowNat(args[1], -args[2].i) IN
                               Val(FloatV(r.d, r.i)))
      [] func_name = "len" ->
            Allocated(it, IF args[1].k = "str" THEN Val(IntV(Len(args[1].s)))
                          ELSE Raise("TypeError"))
      [] OTHER -> Raised(it, "KeyError", "")

(***************************************************************************)
(* interpreter.py: Interpreter.eval.                                       *)
(*                                                                         *)
(* eval returns [status, ref, value, exc, msg, it]:                        *)
(*   status "ok"      it returned ref                                      *)
(*   status "return"  it raised ReturnValue(value)                         *)
(*   status "error"   it raised the exception exc (with message msg)       *)
(* and it, the interpreter state it left.                                  *)
(***************************************************************************)
Ok(it, ref) ==
    [status |-> "ok", ref |-> ref, value |-> NoneV, exc |-> "", msg |-> "", it |-> it]

\* A plausible slip: the signal raised by return carries no value.
ReturnValueNone(it, value) ==
    [status |-> "return", ref |-> NoneRef, value |-> NoneV, exc |-> "ReturnValue",
     msg |-> "", it |-> it]

ReturnValue(it, value) ==
    [status |-> "return", ref |-> NoneRef, value |-> value, exc |-> "ReturnValue",
     msg |-> "", it |-> it]

Error(it, exc, msg) ==
    [status |-> "error", ref |-> NoneRef, value |-> NoneV, exc |-> exc, msg |-> msg,
     it |-> it]

\* return self.heap.allocate(<r>), for the outcome r of a Python expression
EvalAllocate(it, r) ==
    IF r.exc # "" THEN Error(it, r.exc, "") ELSE Ok(allocate(it, r.v), IdRef(it.next_id))

\* the text of a String node without its quotes
Unquote(val) ==
    IF Len(val) >= 1
       /\ \/ Ch(val, 1) = "\"" /\ Ch(val, Len(val)) = "\""
          \/ Ch(val, 1) = "'" /\ Ch(val, Len(val)) = "'"
    THEN SubSeq(val, 2, Len(val) - 1)
    ELSE val

\* the user-defined calls that returned: the frames before and after, how,
\* the reference handed to the caller with its reference count and value in
\* the heap at that moment (0 and None when absent), and the ids the callee
\* frame bound when the body ended
CallReturned(it, func_name, before, how, result, callee) ==
    LET frame == callee.env_stack[Len(callee.env_stack)]
        present == result.tag = "id" /\ result.id \in DOMAIN it.memory
                       /\ result.id \in DOMAIN it.ref_count
    IN
    [it EXCEPT !.calls = @ \cup
        {[name |-> func_name, before |-> before, after |-> Len(it.env_stack),
          how |-> how, result |-> result,
          count |-> IF present THEN it.ref_count[result.id] ELSE 0,
          held |-> IF present THEN it.memory[result.id] ELSE NoneV,
          locals |-> {frame[n].id : n \in {m \in DOMAIN frame : frame[m].tag = "id"}}]}]

RECURSIVE eval(_, _)
RECURSIVE EvalArgs(_, _, _, _)
RECURSIVE ExecBody(_, _, _, _)
RECURSIVE BindParams(_, _, _, _)

\* args = [self.heap.get(self.eval(arg)) for arg in node.children]
EvalArgs(it, children, k, args) ==
    IF k > Len(children) THEN [status |-> "ok", args |-> args, r |-> Ok(it, NoneRef)]
    ELSE LET r == eval(it, children[k]) IN
         IF r.status # "ok" THEN [status |-> r.status, args |-> args, r |-> r]
         ELSE LET v == get(r.it, r.ref) IN
              IF v.exc # ""
              THEN [status |-> "error", args |-> args, r |-> Error(r.it, v.exc, "")]
              ELSE EvalArgs(r.it, children, k + 1, Append(args, v.v))

\* for pname, val in zip(param_names, args): local_env[pname] = allocate(val)
BindParams(it, param_names, args, k) ==
    IF k > Len(param_names) \/ k > Len(args) THEN it
    ELSE BindParams(Bind(allocate(it, args[k]), param_names[k], IdRef(it.next_id)),
                    param_names, args, k + 1)

\* for stmt in func_node.children: result = self.eval(stmt)
ExecBody(it, stmts, k, result) ==
    IF k > Len(stmts) THEN Ok(it, result)
    ELSE LET r == eval(it, stmts[k]) IN
         IF r.status # "ok" THEN r ELSE ExecBody(r.it, stmts, k + 1, r.ref)

\* A plausible slip: the ReturnValue handler forgets pop_env.
AfterReturnNoPop(it) == it

\* the frame handling of the except ReturnValue branch
AfterReturn(it) == pop_env(it)

\* A plausible slip: the arity check left out (zip binds the shorter list).
ArityUnchecked(param_names, args) == TRUE

\* len(param_names) != len(args) raises RuntimeError
ArityMatches(param_names, args) == Len(param_names) = Len(args)

\* the user-defined branch of eval(Call), the arguments already evaluated
CallUser(it, func_name, args) ==
    LET look == lookup(it, func_name)
        func_node == look.ref.fn
        param_names == SubSeq(func_node.value, 2, Len(func_node.value))
        before == Len(it.env_stack)
    IN
    IF look.frame = 0
    THEN Error(it, "RuntimeError", "Variable '" \o func_name \o "' not defined")
    ELSE IF look.ref.tag # "fn" \/ func_node.type # "Function"
    THEN Error(look.it, "RuntimeError", "'" \o func_name \o "' is not a function")
    ELSE IF ~ArityMatches(param_names, args)
    THEN Error(look.it, "RuntimeError", func_name \o " expects args")
    ELSE IF before > MaxCallDepth
    THEN Error(look.it, "RecursionError", "")
    ELSE LET body == ExecBody(BindParams(push_env(look.it), param_names, args, 1),
                              func_node.children, 1, NoneRef)
         IN
         IF body.status = "ok"
         THEN Ok(CallReturned(pop_env(body.it), func_name, before, "fallthrough",
                              body.ref, body.it),
                 body.ref)
         ELSE IF body.status = "return"
         THEN LET popped == AfterReturn(body.it) IN
              Ok(CallReturned(allocate(popped, body.value), func_name, before, "return",
                              IdRef(popped.next_id), body.it),
                 IdRef(popped.next_id))
         ELSE body

eval(it, node) ==
    CASE node.type = "Program" -> ExecBody(it, node.children, 1, NoneRef)
      [] node.type = "VarDecl" ->
            LET r == IF Len(node.children) > 0 THEN eval(it, node.children[1])
                     ELSE Ok(it, NoneRef)
            IN
            IF r.status # "ok" THEN r
            ELSE Ok(Bind(retain(r.it, r.ref), node.value[2], r.ref), r.ref)
      [] node.type = "Assign" ->
            LET r == eval(it, node.children[1]) IN
            IF r.status # "ok" THEN r
            ELSE Ok(assign(r.it, node.value[1], r.ref), r.ref)
      [] node.type = "Var" ->
            LET look == lookup(it, node.value[1]) IN
            IF look.frame = 0
            THEN Error(it, "RuntimeError",
                       "Variable '" \o node.value[1] \o "' not defined")
            ELSE Ok(look.it, look.ref)
      [] node.type = "Number" -> EvalAllocate(it, ParseNumber(node.value[1]))
      [] node.type = "String" -> EvalAllocate(it, Val(StrV(Unquote(node.value[1]))))
      [] node.type = "Bool" -> EvalAllocate(it, Val(BoolV(node.value[1] = "True")))
      [] node.type = "Null" -> EvalAllocate(it, Val(NoneV))
      [] node.type = "BinOp" ->
            LET a == EvalArgs(it, node.children, 1, <<>>) IN
            IF a.status # "ok" THEN a.r
            ELSE EvalAllocate(a.r.it, ApplyBinOp(node.value[1], a.args[1], a.args[2]))
      [] node.type = "UnaryOp" ->
            LET a == EvalArgs(it, node.children, 1, <<>>) IN
            IF a.status # "ok" THEN a.r
            ELSE EvalAllocate(a.r.it, ApplyUnaryOp(node.value[1], a.args[1]))
      [] node.type = "Function" -> Ok(Bind(it, node.value[1], FnRef(node)), NoneRef)
      [] node.type = "Return" ->
            LET r == eval(it, node.children[1]) IN
            IF r.status # "ok" THEN r
            ELSE LET v == get(r.it, r.ref) IN
                 IF v.exc # "" THEN Error(r.it, v.exc, "") ELSE ReturnValue(r.it, v.v)
      [] node.type = "Call" ->
            LET a == EvalArgs(it, node.children, 1, <<>>) IN
            IF a.status # "ok" THEN a.r
            ELSE IF node.value[1] \in builtins
            THEN LET b == CallBuiltin(a.r.it, node.value[1], a.args) IN
                 IF b.exc # "" THEN Error(b.it, b.exc, b.msg) ELSE Ok(b.it, b.ref)
            ELSE CallUser(a.r.it, node.value[1], a.args)
      [] OTHER -> Error(it, "RuntimeError", "Unknown node type")

(***************************************************************************)
(* main.py: the driver.  A program is a source text; the texts explored    *)
(* are the concatenations of one to MaxStmts fragments of a pool.          *)
(***************************************************************************)
RECURSIVE Concat(_, _)
Concat(pool, q) ==
    IF Len(q) = 0 THEN ""
    ELSE IF Len(q) = 1 THEN pool[q[1]]
    ELSE pool[q[1]] \o " " \o Concat(pool, Tail(q))

\* the source texts main() may read: code = f.read()
Sources(pool) ==
    {Concat(pool, q) : q \in UNION {[1..n -> 1..Len(pool)] : n \in 1..MaxStmts}}

\* fragments of whole programs: declarations, assignments, reads and calls
Pool ==
    <<"let x = 1;",
      "mut x = 2;",
      "x = 'a';",
      "x = 3;",
      "print(x);",
      "print(1);",
      "fn f(a) { let _ = a; }",
      "let r = f(1);",
      "print(f);",
      "f = 1;",
      "fn q(b) { b = 'c'; }",
      "fn add(a, b) { return a + b; }",
      "print(add(2, 3));",
      "fn h(u) { }",
      "let a = 0; fn g() { print(a); }",
      "fn k(a) { print(a); g(); } k(1);",
      "fn d(a, a) { }",
      "/* c\n */ print(1);",
      "mut w = 1.5; w = 2; mut n = abs(1); n = 2.5;",
      "push(1);",
      "fn o() { fn i() { print(1); } i(); }",
      "let x = 1; fn s() { mut x = 'a'; x = 'b'; }",
      "fn t() { print(1); } fn v() { t(); } fn w(t) { print(t); v(); } w(2);">>

\* fragments for the Interpreter driven on a parsed program: functions that
\* return by a return statement or by exhausting their body, nested calls,
\* a recursion that never returns, and a call with the wrong arity
InterpPool ==
    <<"fn add(a, b) { return a + b; }",
      "print(add(2, 3));",
      "fn twice(a) { return add(a, a); } let y = twice(4);",
      "fn p(a) { print(a); } p(1);",
      "fn e(a) { return a; print(a); } let z = e(1);",
      "fn o(a) { p(a); return a; } o(2);",
      "fn n(a) { add(a, 1); } n(2);",
      "fn r(a) { return r(a); } r(1);",
      "add(1);",
      "fn b(a) { panic(a); } b('x');",
      "let r = 10-2-3;">>

\* the operand triples of the expressions a op1 b op2 c
Operands == {<<"2", "3", "4">>, <<"10", "2", "3">>, <<"1", "0", "0">>}

ExprSource(t, op1, op2) ==
    "let r = " \o t[1] \o " " \o op1 \o " " \o t[2] \o " " \o op2 \o " " \o t[3] \o ";"

\* one declaration whose initializer combines two binary operators
ExprSources ==
    {ExprSource(t, op1, op2) : t \in Operands, op1 \in BinaryOps, op2 \in BinaryOps}

main(sources) ==
    /\ code \in sources
    /\ phase = "read"
    /\ tokens = <<>>
    /\ ast = NoNode
    /\ analyzer = SemanticAnalyzer
    /\ interp = Interpreter
    /\ idx = 0

Init == main(Sources(Pool))

\* tokens = lexer(code)
Lex ==
    /\ phase = "read"
    /\ LET r == lexer(code) IN
       /\ tokens' = r.tokens
       /\ phase' = IF r.ok THEN "lexed" ELSE "lexical_error"
    /\ UNCHANGED <<code, ast, analyzer, interp, idx>>

\* ast = Parser(tokens).parse()
Parse ==
    /\ phase = "lexed"
    /\ LET r == parse(tokens) IN
       /\ ast' = r.node
       /\ phase' = IF r.ok THEN "parsed" ELSE "parsing_error"
    /\ UNCHANGED <<code, tokens, analyzer, interp, idx>>

\* analyzer.analyze(ast), and the exits of main() that follow it
Analyze ==
    /\ phase = "parsed"
    /\ analyzer' = analyze(ast)
    /\ phase' = IF analyzer'.exc # "" THEN "semantic_failed"
                ELSE IF Len(analyzer'.errors) > 0 THEN "semantic_errors"
                ELSE "analyzed"
    /\ UNCHANGED <<code, tokens, ast, interp, idx>>

\* one iteration of the loop of eval(Program): result = self.eval(child)
EvalChild ==
    LET r == eval(interp, ast.children[idx + 1]) IN
    /\ interp' = r.it
    /\ idx' = idx + 1
    /\ phase' = IF r.status # "ok" THEN "runtime_error"
                ELSE IF idx + 1 = Len(ast.children) THEN "done"
                ELSE "running"
    /\ UNCHANGED <<code, tokens, ast, analyzer>>

\* interpreter.eval(ast), reached only with no semantic errors
Evaluate ==
    /\ phase \in {"analyzed", "running"}
    /\ idx < Len(ast.children)
    /\ EvalChild

Next == Lex \/ Parse \/ Analyze \/ Evaluate

Spec == Init /\ [][Next]_vars

\* the same pipeline on the two-operator expressions
InitExpr == main(ExprSources)

SpecExpr == InitExpr /\ [][Next]_vars

\* Interpreter().eval(ast) called on a parsed program by a client of the
\* Interpreter class that runs no semantic analysis
InitInterp == main(Sources(InterpPool))

InterpreterEval ==
    /\ phase \in {"parsed", "running"}
    /\ idx < Len(ast.children)
    /\ EvalChild

NextInterp == Lex \/ Parse \/ InterpreterEval

SpecInterp == InitInterp /\ [][NextInterp]_vars

(***************************************************************************)
(* The Heap and Interpreter.assign driven directly by a client: any        *)
(* sequence of allocate, retain, release and assign, on ids that are       *)
(* present, absent (released, or never allocated) or None, from an         *)
(* environment stack whose frames bind the name x to None or leave it      *)
(* unbound.                                                                *)
(***************************************************************************)
\* heap.allocate(value)
Allocate ==
    /\ interp.next_id < MaxIds
    /\ interp' = allocate(interp, IntV(interp.next_id))
    /\ UNCHANGED <<code, phase, tokens, ast, analyzer, idx>>

\* heap.retain(obj_id)
Retain ==
    /\ \E ref \in {NoneRef} \cup {IdRef(n) : n \in 0..MaxIds} :
          /\ ref.id \in DOMAIN interp.ref_count => interp.ref_count[ref.id] < MaxCount
          /\ interp' = retain(interp, ref)
    /\ UNCHANGED <<code, phase, tokens, ast, analyzer, idx>>

\* heap.release(obj_id)
Release ==
    /\ \E ref \in {NoneRef} \cup {IdRef(n) : n \in 0..MaxIds} :
          interp' = release(interp, ref)
    /\ UNCHANGED <<code, phase, tokens, ast, analyzer, idx>>

\* interpreter.assign("x", obj_id)
AssignName ==
    /\ \E ref \in {NoneRef} \cup {IdRef(n) : n \in 0..MaxIds} :
          interp' = assign(interp, "x", ref)
    /\ UNCHANGED <<code, phase, tokens, ast, analyzer, idx>>

SpecHeap ==
    /\ code = ""
    /\ phase = "read"
    /\ tokens = <<>>
    /\ ast = NoNode
    /\ analyzer = SemanticAnalyzer
    /\ idx = 0
    /\ interp \in {[Interpreter EXCEPT !.env_stack = s] :
                      s \in UNION {[1..n -> {EmptyEnv, "x" :> NoneRef}] : n \in 1..MaxFrames}}
    /\ [][Allocate \/ Retain \/ Release \/ AssignName]_vars

(***************************************************************************)
(* Properties.                                                             *)
(***************************************************************************)
\* analyze() has been called (and has returned or raised)
Analysed ==
    phase \in {"semantic_failed", "semantic_errors", "analyzed", "running", "done",
               "runtime_error"}

\* main() has ended
Ended ==
    phase \in {"lexical_error", "parsing_error", "semantic_failed", "semantic_errors",
               "runtime_error", "done"}

\* some top-level statements of a program that passed analysis have been evaluated
Evaluated == phase \in {"running", "done"}

\* the heap ids bound to a name in a live frame
BoundIds ==
    UNION {{interp.env_stack[f][n].id :
               n \in {m \in DOMAIN interp.env_stack[f] : interp.env_stack[f][m].tag = "id"}} :
           f \in 1..Len(interp.env_stack)}

\* C1 (as claimed; refuted): after the evaluation of statements of a program
\* that passed analysis, every id a live frame binds is in the heap with a
\* reference count of at least 1.
C1_NoDanglingBinding ==
    Evaluated =>
        \A id \in BoundIds :
            /\ id \in DOMAIN interp.memory
            /\ id \in DOMAIN interp.ref_count
            /\ interp.ref_count[id] >= 1

\* C2 (as claimed; refuted): after the evaluation of statements, every id in
\* the heap is bound by some live frame.
C2_NoLeak == Evaluated => DOMAIN interp.memory \subseteq BoundIds

\* C3: every user-defined call that returned, by exhausting its body or by a
\* return statement, left as many frames as there were before it began.
C3_FramePop == \A c \in interp.calls : c.after = c.before

\* a nested call has returned by a return statement and a call by exhausting its body
C3_Witness ==
    /\ \E c \in interp.calls : c.how = "return" /\ c.before >= 2 /\ c.after = c.before
    /\ \E c \in interp.calls : c.how = "fallthrough" /\ c.after = c.before

\* the visited assignments whose target resolved to a let or const variable
ImmutableAssigns ==
    {i \in 1..Len(analyzer.log) :
        analyzer.log[i].ev = "assign" /\ analyzer.log[i].info[1] \in {"let", "const"}}

\* the errors reported for the node at a path that name a variable
ErrorsAt(at, name) ==
    {j \in 1..Len(analyzer.errors) :
        analyzer.errors[j].at = at /\ analyzer.errors[j].name = name}

MutabilityMessages ==
    {"Cannot assign to const variable", "Cannot assign to immutable variable"}

\* C4 (amended): an assignment whose target resolves to a let or const variable
\* gets exactly one mutability error naming the variable, and besides it at
\* most a type-mismatch error naming the variable.
C4_OneMutabilityError ==
    \A i \in ImmutableAssigns :
        LET here == ErrorsAt(analyzer.log[i].at, analyzer.log[i].name) IN
        /\ Cardinality({j \in here : analyzer.errors[j].msg \in MutabilityMessages}) = 1
        /\ \A j \in here :
              analyzer.errors[j].msg \in MutabilityMessages \cup {"Type mismatch"}
        /\ Cardinality(here) <= 2

\* an assignment to a let variable was given a mutability and a type-mismatch error
C4_Witness ==
    /\ Analysed
    /\ \E i \in ImmutableAssigns :
          /\ analyzer.log[i].info[1] = "let"
          /\ Cardinality(ErrorsAt(analyzer.log[i].at, analyzer.log[i].name)) = 2

\* C4 (as claimed; refuted): such an assignment gets exactly one error naming
\* the variable.
C4_ExactlyOneError ==
    \A i \in ImmutableAssigns :
        Cardinality(ErrorsAt(analyzer.log[i].at, analyzer.log[i].name)) = 1

\* the visited reads that no initializing declaration and no assignment of the
\* same name precedes, in visit order
EarlyReads ==
    {i \in 1..Len(analyzer.log) :
        /\ analyzer.log[i].ev = "read"
        /\ \A j \in 1..(i - 1) :
              \/ analyzer.log[j].name # analyzer.log[i].name
              \/ /\ analyzer.log[j].ev # "assign"
                 /\ ~(analyzer.log[j].ev = "declare"
                      /\ analyzer.log[j].info[2] = "initialized")}

\* the name read at log entry i was declared before
DeclaredBefore(i) ==
    \E j \in 1..(i - 1) :
        /\ analyzer.log[j].name = analyzer.log[i].name
        /\ analyzer.log[j].ev = "declare"

C6_WarningsNeverBlock ==
    (Analysed /\ Len(analyzer.errors) = 0) =>
        /\ analyzer.exc = ""
        /\ phase \in {"analyzed", "running", "done", "runtime_error"}

\* C7 (as claimed; refuted): the add scenario passes analysis with no error,
\* prints 5 and leaves the frame count at its pre-call value.
C7_FunctionCallScenario ==
    (code = "fn add(a, b) { return a + b; } print(add(2, 3));" /\ Ended) =>
        /\ Len(analyzer.errors) = 0
        /\ phase = "done"
        /\ interp.out = <<"5">>
        /\ Len(interp.env_stack) = 1

\* C10 (as claimed; refuted): inside a function body a name resolves in the
\* function's own frame or in the global frame, never in a caller's frame.
C10_NoCallerFrame == \A l \in interp.lookups : l.frame \in {1, l.depth}

\* the program let r = a op1 b op2 c; has been parsed
ParsedExpr == code \in ExprSources /\ phase \notin {"read", "lexed"}

Op1 == tokens[5][2]

Op2 == tokens[7][2]

Operand(k) == ASTNode("Number", <<tokens[k][2]>>, <<>>)

\* the initializer of the declaration
Initializer == ast.children[1].children[1]

\* (a op1 b) op2 c
LeftGrouped ==
    ASTNode("BinOp", <<Op2>>,
            <<ASTNode("BinOp", <<Op1>>, <<Operand(4), Operand(6)>>), Operand(8)>>)

\* a op1 (b op2 c)
RightGrouped ==
    ASTNode("BinOp", <<Op1>>,
            <<Operand(4), ASTNode("BinOp", <<Op2>>, <<Operand(6), Operand(8)>>)>>)

Equality == {"==", "!="}

Relational == {"<", ">", "<=", ">="}

\* the levels the claim names, lowest first
ClaimedLevel(op) ==
    CASE op = "||" -> 1
      [] op = "&&" -> 2
      [] op \in Equality \cup Relational -> 3
      [] op \in {"+", "-"} -> 4
      [] op \in {"*", "/", "%"} -> 5

\* the levels with equality below the relational operators
AmendedLevel(op) ==
    CASE op = "||" -> 1
      [] op = "&&" -> 2
      [] op \in Equality -> 3
      [] op \in Relational -> 4
      [] op \in {"+", "-"} -> 5
      [] op \in {"*", "/", "%"} -> 6

\* the value bound to r once the program has run to its end
Yields(source, value) ==
    (code = source /\ Ended) =>
        /\ phase = "done"
        /\ interp.env_stack[1]["r"].tag = "id"
        /\ interp.memory[interp.env_stack[1]["r"].id] = value

Examples ==
    /\ Yields("let r = 2 + 3 * 4;", IntV(14))
    /\ Yields("let r = 10 - 2 - 3;", IntV(5))
    /\ Yields("let r = 1 || 0 && 0;", BoolV(TRUE))

\* C8 (amended): with the levels || < && < equality (== !=) < relational
\* (< > <= >=) < additive < multiplicative, the operator of the higher level
\* groups first whatever the textual order, two operators of one level group
\* left to right, and the three examples evaluate to 14, 5 and true.
C8_PrecedenceLevels ==
    /\ ParsedExpr =>
          Initializer = IF AmendedLevel(Op2) > AmendedLevel(Op1) THEN RightGrouped
                        ELSE LeftGrouped
    /\ Examples

\* 2 + 3 * 4 was grouped as 2 + (3 * 4) and evaluated to 14
C8_Witness ==
    /\ code = "let r = 2 + 3 * 4;"
    /\ phase = "done"
    /\ Initializer = RightGrouped
    /\ interp.memory[interp.env_stack[1]["r"].id] = IntV(14)

\* C8 (as claimed; refuted): the same with the five levels of the claim's
\* table, the six comparison operators forming one level.
C8_ClaimedLevels ==
    /\ ParsedExpr =>
          Initializer = IF ClaimedLevel(Op2) > ClaimedLevel(Op1) THEN RightGrouped
                        ELSE LeftGrouped
    /\ Examples

\* C9 (amended): a op1 b op2 c with two comparison operators parses as
\* BinOp(op2, BinOp(op1, a, b), c), except that an equality operator followed
\* by a relational one parses as BinOp(op1, a, BinOp(op2, b, c)).
C9_ComparisonGrouping ==
    (ParsedExpr /\ Op1 \in Equality \cup Relational /\ Op2 \in Equality \cup Relational) =>
        Initializer = IF Op1 \in Equality /\ Op2 \in Relational THEN RightGrouped
                      ELSE LeftGrouped

\* a == b < c was parsed as a == (b < c), and a < b == c as (a < b) == c
C9_Witness ==
    /\ ParsedExpr
    /\ \/ Op1 = "==" /\ Op2 = "<" /\ Initializer = RightGrouped
       \/ Op1 = "<" /\ Op2 = "==" /\ Initializer = LeftGrouped

\* C9 (as claimed; refuted): any two comparison operators group left to right.
C9_EqualPrecedence ==
    (ParsedExpr /\ Op1 \in Equality \cup Relational /\ Op2 \in Equality \cup Relational) =>
        Initializer = LeftGrouped

\* the top-level assignments whose target no statement of the program declares
UndeclaredAssigns ==
    {i \in 1..Len(ast.children) :
        /\ ast.children[i].type = "Assign"
        /\ \A j \in 1..Len(ast.children) :
              \/ ast.children[j].type \notin {"VarDecl", "Function"}
              \/ ast.children[j].value[IF ast.children[j].type = "VarDecl" THEN 2 ELSE 1]
                     # ast.children[i].value[1]}

\* C11 (as claimed; refuted): analyze returns normally for every parsed
\* program, having visited every statement: no violation ends the traversal
\* with an exception, and every assignment to an undeclared name, wherever it
\* stands in the program, has its error in the error list.  (The programs
\* whose analysis ends in exit_scope with the AttributeError of an unused
\* variable, which is no violation, are left aside: see C6.)
C11_ErrorsAccumulated ==
    Analysed /\ analyzer.exc # "AttributeError" =>
        /\ analyzer.exc = ""
        /\ \A i \in UndeclaredAssigns : ErrorsAt(<<i>>, ast.children[i].value[1]) # {}

\* the offsets in the text of the first characters of the tokens lexer emits
\* from pos on (comments, blanks and line breaks emit none)
RECURSIVE TokenStarts(_, _)
TokenStarts(s, pos) ==
    IF pos > Len(s) THEN <<>>
    ELSE LET mo == get_token(s, pos) IN
         IF mo.kind \in {"COMMENT", "WS", "NEWLINE"} THEN TokenStarts(s, mo.end)
         ELSE <<pos>> \o TokenStarts(s, mo.end)

\* the line breaks of the text before offset p
BreaksBefore(s, p) == {i \in 1..(p - 1) : Ch(s, i) = "\n"}

\* the 1-based line and column of the character at offset p
LineOf(s, p) == 1 + Cardinality(BreaksBefore(s, p))

ColumnOf(s, p) ==
    IF BreaksBefore(s, p) = {} THEN p
    ELSE p - (CHOOSE i \in BreaksBefore(s, p) : \A j \in BreaksBefore(s, p) : j <= i)

\* C12 (as claimed; refuted): every token of a text that lexed successfully
\* carries the line and column of its first character in the text.
C12_ExactPositions ==
    phase \notin {"read", "lexical_error"} =>
        LET starts == TokenStarts(code, 1) IN
        /\ Len(starts) = Len(tokens) - 1
        /\ \A k \in 1..Len(starts) :
              /\ tokens[k][3] = LineOf(code, starts[k])
              /\ tokens[k][4] = ColumnOf(code, starts[k])

\* the visited top-level assignments whose target resolved to a mut variable
\* declared with a type other than "unknown"
TypedMutAssigns ==
    {i \in 1..Len(analyzer.log) :
        /\ analyzer.log[i].ev = "assign"
        /\ Len(analyzer.log[i].at) = 1
        /\ analyzer.log[i].info[1] = "mut"
        /\ analyzer.log[i].info[2] # "unknown"}

\* compatibility of an actual type A with a declared type T, as specified
Compatible(T, A) ==
    \/ A = T
    \/ T = "float" /\ A = "int"
    \/ T = "number" /\ A \in {"int", "float"}

\* the inferred type of the right-hand side of the top-level assignment at a path
RhsType(at) == infer_type(ast.children[at[1]].children[1], analyzer.scopes).type

\* C13: an assignment to a mut variable declared with type T other than
\* "unknown" is reported with a type mismatch, naming the right-hand side's
\* type A and T, exactly when A is not compatible with T, and with no other
\* error naming the variable (no mutability error).
C13_TypeMismatchIff ==
    \A i \in TypedMutAssigns :
        LET e == analyzer.log[i]
            here == ErrorsAt(e.at, e.name)
        IN
        /\ (here # {}) <=> ~Compatible(e.info[2], RhsType(e.at))
        /\ Cardinality(here) <= 1
        /\ \A j \in here :
              /\ analyzer.errors[j].msg = "Type mismatch"
              /\ analyzer.errors[j].detail = <<RhsType(e.at), e.info[2]>>

\* a string was assigned to a mut int variable and reported as a string-to-int
\* mismatch, the only error of the program
C13_Witness ==
    /\ Analysed
    /\ Len(analyzer.errors) = 1
    /\ \E i \in TypedMutAssigns :
          /\ analyzer.log[i].info[2] = "int"
          /\ \E j \in ErrorsAt(analyzer.log[i].at, analyzer.log[i].name) :
                /\ analyzer.errors[j].msg = "Type mismatch"
                /\ analyzer.errors[j].detail = <<"string", "int">>

\* C14 (as claimed; refuted): when the evaluation of a top-level statement
\* fails, the frames pushed for the calls that failed have been popped: only
\* the global frame is left, as before the outermost failing call began.
C14_FramePopOnFailure == phase = "runtime_error" => Len(interp.env_stack) = 1

\* C15: the value map and the reference-count map of the heap have the same
\* ids, and every id present has a reference count of at least 1 (so a release
\* that brings a count to 0 has removed the entry in the same step).
C15_HeapInvariant ==
    /\ DOMAIN interp.memory = DOMAIN interp.ref_count
    /\ \A id \in DOMAIN interp.ref_count : interp.ref_count[id] >= 1

\* an id was allocated and released down to 0, so that it is absent, while
\* another id is present with a count above 1
C15_Witness ==
    /\ \E id \in 0..(interp.next_id - 1) : id \notin DOMAIN interp.memory
    /\ \E id \in DOMAIN interp.ref_count : interp.ref_count[id] > 1

\* the reference count of an id, 0 when the id is absent
CountOf(it, id) == IF id \in DOMAIN it.ref_count THEN it.ref_count[id] ELSE 0

\* the count of an id after one release of the reference old and then one
\* retain of the reference new (both without effect on None and absent ids)
CountAfterRebind(it, id, old, new) ==
    LET released == IF old.tag = "id" /\ old.id = id /\ CountOf(it, id) > 0
                    THEN CountOf(it, id) - 1 ELSE CountOf(it, id)
    IN IF new.tag = "id" /\ new.id = id /\ released > 0 THEN released + 1 ELSE released

\* the frames that bind x
Binders == {f \in 1..Len(interp.env_stack) : "x" \in DOMAIN interp.env_stack[f]}

\* the step is interpreter.assign("x", ref)
AssignedTo(ref) == AssignName /\ interp' = assign(interp, "x", ref)

\* what an assignment of ref to x must leave
RebindPost(ref) ==
    LET stack == interp.env_stack
        top == Len(stack)
    IN
    /\ Len(interp'.env_stack) = top
    /\ IF Binders # {}
       THEN LET f == CHOOSE g \in Binders : \A h \in Binders : h <= g
                old == stack[f]["x"]
            IN
            /\ interp'.env_stack = [stack EXCEPT ![f] = ("x" :> ref)]
            /\ \A id \in 0..MaxIds :
                  CountOf(interp', id) = CountAfterRebind(interp, id, old, ref)
       ELSE /\ interp'.env_stack = [stack EXCEPT ![top] = ("x" :> ref)]
            /\ \A g \in 1..(top - 1) : interp'.env_stack[g] = stack[g]

\* C17: assigning to a name rewrites its binding in the innermost frame that
\* binds it and in no other frame, with one release of the old id and one
\* retain of the new id; when no frame binds the name, the binding is created
\* in the innermost frame and every other frame is left as it was.
C17_RebindProtocol ==
    [][\A ref \in {NoneRef} \cup {IdRef(n) : n \in 0..MaxIds} :
           AssignedTo(ref) => RebindPost(ref)]_vars

\* x was assigned in the inner of two frames that bind it: the inner frame
\* binds a present id and the outer frame still binds None
C17_Witness ==
    /\ Len(interp.env_stack) = 2
    /\ \E l \in interp.lookups : l.what = "assign" /\ l.frame = 2
    /\ Binders = {1, 2}
    /\ interp.env_stack[1]["x"] = NoneRef
    /\ interp.env_stack[2]["x"].tag = "id"
    /\ CountOf(interp, interp.env_stack[2]["x"].id) >= 2

\* the node is a call, with literal arguments, of a name the environment
\* binds to a function of a different number of parameters
ArityMismatch(node) ==
    /\ node.type = "Call"
    /\ node.value[1] \notin builtins
    /\ \A k \in 1..Len(node.children) : node.children[k].type = "Number"
    /\ LET f == CHOOSE g \in 0..Len(interp.env_stack) :
                    /\ g # 0 => node.value[1] \in DOMAIN interp.env_stack[g]
                    /\ \A h \in (g + 1)..Len(interp.env_stack) :
                          node.value[1] \notin DOMAIN interp.env_stack[h]
       IN
       /\ f # 0
       /\ interp.env_stack[f][node.value[1]].tag = "fn"
       /\ Len(interp.env_stack[f][node.value[1]].fn.value) - 1 # Len(node.children)

\* C16: the evaluation of a call whose number of arguments differs from the
\* number of parameters fails once its arguments were evaluated (one
\* allocation for each literal), pushes no frame, executes no statement of the
\* body (no call is logged, nothing is printed, nothing else is allocated) and
\* leaves the environment stack and its bindings as they were.
C16_ArityMismatch ==
    [][(InterpreterEval /\ ArityMismatch(ast.children[idx + 1])) =>
           /\ phase' = "runtime_error"
           /\ interp'.env_stack = interp.env_stack
           /\ interp'.next_id = interp.next_id + Len(ast.children[idx + 1].children)
           /\ interp'.calls = interp.calls
           /\ interp'.out = interp.out]_vars

\* a call of a two-parameter function with one argument has failed: the
\* global frame is the only frame and the argument was allocated
C16_Witness ==
    /\ phase = "runtime_error"
    /\ idx >= 1
    /\ ArityMismatch(ast.children[idx])
    /\ Len(interp.env_stack) = 1
    /\ interp.next_id >= Len(ast.children[idx].children)
    /\ interp.calls = {}

\* the node declares a variable initialized by a call of a function, bound in
\* the global frame, whose body holds no return statement
FallthroughDecl(node) ==
    /\ node.type = "VarDecl"
    /\ Len(node.children) = 1
    /\ node.children[1].type = "Call"
    /\ node.children[1].value[1] \in DOMAIN interp.env_stack[1]
    /\ LET f == interp.env_stack[1][node.children[1].value[1]] IN
       /\ f.tag = "fn"
       /\ \A k \in 1..Len(f.fn.children) : f.fn.children[k].type # "Return"

\* C18 (as claimed; refuted): a call whose body completed without a return
\* statement yields no heap id, so a variable just declared with such a call
\* as its initializer is bound to None.
C18_FallthroughYieldsNone ==
    (phase \in {"running", "done"} /\ idx >= 1 /\ FallthroughDecl(ast.children[idx])) =>
        interp.env_stack[1][ast.children[idx].value[2]].tag = "none"

\* the value bound to a global name once the program has run to its end
Binds(source, name, value) ==
    (code = source /\ Ended) =>
        /\ phase = "done"
        /\ interp.env_stack[1][name].tag = "id"
        /\ interp.env_stack[1][name].id \in DOMAIN interp.memory
        /\ interp.memory[interp.env_stack[1][name].id] = value

\* C19: a call that exits by a return statement hands to its caller an id
\* that none of the names of the popped callee frame was bound to, that is in
\* the heap at that moment (count 1: just allocated), and that holds the value
\* of the return expression (for add, as the programs call it, 2 + 3, 4 + 4
\* or 2 + 1; for e(1), 1; for twice(4), 8).
C19_ReturnRematerialized ==
    /\ \A c \in interp.calls :
          c.how = "return" =>
              /\ c.after = c.before
              /\ c.result.tag = "id"
              /\ c.result.id \notin c.locals
              /\ c.count = 1
    /\ \A c \in interp.calls :
          (c.how = "return" /\ c.name = "add") => c.held \in {IntV(5), IntV(8), IntV(3)}
    /\ Binds("fn e(a) { return a; print(a); } let z = e(1);", "z", IntV(1))
    /\ Binds("fn add(a, b) { return a + b; } fn twice(a) { return add(a, a); } let y = twice(4);",
             "y", IntV(8))

\* twice(4) has returned the value that the nested call add(4, 4) returned,
\* each under an id of its own that its callee frame did not bind
C19_Witness ==
    /\ phase = "done"
    /\ \E c \in interp.calls :
          /\ c.name = "twice" /\ c.how = "return" /\ c.held = IntV(8)
          /\ c.locals # {} /\ c.result.id \notin c.locals
    /\ \E c \in interp.calls :
          /\ c.name = "add" /\ c.how = "return" /\ c.held = IntV(8) /\ c.before = 2

\* C20 (as claimed; refuted): no "Unknown function" error names a name that
\* the lexer tokenizes as a built-in function.
C20_BuiltinsAlwaysLegal ==
    \A j \in 1..Len(analyzer.errors) :
        analyzer.errors[j].msg = "Unknown function" => analyzer.errors[j].name \notin functions

\* the length of the scope chain (the current scope and its ancestors) after
\* the first i events of the analysis
ScopeDepthAt(i) ==
    1 + Cardinality({j \in 1..i : analyzer.log[j].ev = "enter"})
      - Cardinality({j \in 1..i : analyzer.log[j].ev = "exit"})

\* C21 (as claimed; refuted): at every point of the analysis the current scope
\* is the global scope or a direct child of it, and when analyze has returned
\* the current scope is the global scope.
C21_OneLevelDeep ==
    /\ \A i \in 1..Len(analyzer.log) : ScopeDepthAt(i) <= 2
    /\ (Analysed /\ analyzer.exc = "") => Len(analyzer.scopes) = 1

\* a statement that declares a name: a VarDecl or a function definition
Declares(node) == node.type \in {"VarDecl", "Function"}

DeclaredName(node) == node.value[IF node.type = "VarDecl" THEN 2 ELSE 1]

\* the qualifier and type a declaring statement gives its name (the
\* initializers of the programs are literals and calls of built-ins)
DeclaredAs(node) ==
    IF node.type = "Function" THEN <<"const", "function">>
    ELSE <<node.value[1], infer_type(node.children[1], <<EmptyTable>>).type>>

\* the statements of a list that declare, before position i, the name that
\* the statement at i declares
EarlierDeclarations(stmts, i) ==
    {j \in 1..(i - 1) :
        Declares(stmts[j]) /\ DeclaredName(stmts[j]) = DeclaredName(stmts[i])}

AlreadyDeclaredErrors(at, name) ==
    {j \in ErrorsAt(at, name) : analyzer.errors[j].msg = "already declared in this scope"}

\* the top-level function definitions
TopFunctions == {p \in 1..Len(ast.children) : ast.children[p].type = "Function"}

\* C22: (a) when analyze has returned, a top-level VarDecl or function
\* definition is reported as "already declared in this scope" exactly when an
\* earlier top-level statement declares its name, and the global symbol keeps
\* the qualifier and type of the first declaration; (b) a VarDecl of a
\* function body whose name no parameter and no earlier statement of the body
\* declares is reported with no such error, whatever the global scope
\* declares, and the later assignments to the name that the analysis visits
\* in that body resolve to the variable it declared.
C22_RedeclarationAndShadowing ==
    Analysed =>
        /\ \A i \in 1..Len(ast.children) :
              (analyzer.exc = "" /\ Declares(ast.children[i])) =>
                  LET name == DeclaredName(ast.children[i])
                      earlier == EarlierDeclarations(ast.children, i)
                  IN
                  /\ (AlreadyDeclaredErrors(<<i>>, name) # {}) <=> (earlier # {})
                  /\ earlier = {} =>
                        /\ name \in DOMAIN analyzer.scopes[1]
                        /\ <<analyzer.scopes[1][name].kind,
                             analyzer.scopes[1][name].var_type>> = DeclaredAs(ast.children[i])
        /\ \A p \in TopFunctions :
              LET body == ast.children[p].children
                  params == SubSeq(ast.children[p].value, 2, Len(ast.children[p].value))
              IN
              \A q \in 1..Len(body) :
                  (/\ body[q].type = "VarDecl"
                   /\ EarlierDeclarations(body, q) = {}
                   /\ \A k \in 1..Len(params) : params[k] # DeclaredName(body[q])) =>
                      /\ AlreadyDeclaredErrors(<<p, q>>, DeclaredName(body[q])) = {}
                      /\ \A e \in 1..Len(analyzer.log) :
                            (/\ analyzer.log[e].ev = "assign"
                             /\ analyzer.log[e].name = DeclaredName(body[q])
                             /\ Len(analyzer.log[e].at) = 2
                             /\ analyzer.log[e].at[1] = p
                             /\ analyzer.log[e].at[2] > q) =>
                                analyzer.log[e].info = DeclaredAs(body[q])

\* x is declared twice in the global scope, the second time with an error,
\* and once more in a function body, where an assignment resolved to the mut
\* string variable of the body while the global x is an int
C22_Witness ==
    /\ Analysed
    /\ analyzer.exc = ""
    /\ \E i \in 1..Len(ast.children) : AlreadyDeclaredErrors(<<i>>, "x") # {}
    /\ \E e \in 1..Len(analyzer.log) :
          /\ analyzer.log[e].ev = "assign"
          /\ analyzer.log[e].name = "x"
          /\ Len(analyzer.log[e].at) = 2
          /\ analyzer.log[e].info = <<"mut", "string">>
    /\ analyzer.scopes[1]["x"].var_type = "int"

\* C23 (as claimed; refuted): the analysis of a parsed program reports no
\* "Unknown AST node type" error.
C23_EveryNodeHandled ==
    \A j \in 1..Len(analyzer.errors) : analyzer.errors[j].msg # "Unknown AST node type"

EndsWith(text, suffix) ==
    /\ Len(text) >= Len(suffix)
    /\ SubSeq(text, Len(text) - Len(suffix) + 1, Len(text)) = suffix

\* the outcome of an evaluation is a failure of name resolution
NameResolutionFailure(r) ==
    /\ r.status = "error"
    /\ r.exc = "RuntimeError"
    /\ \/ EndsWith(r.msg, "' not defined")
       \/ EndsWith(r.msg, "' is not a function")

\* C24 (as claimed; refuted): the evaluation of a statement of a program that
\* passed analysis never fails with "Variable '<name>' not defined" nor with
\* "'<name>' is not a function".
C24_NamesResolveAtRuntime ==
    [][Evaluate => ~NameResolutionFailure(eval(interp, ast.children[idx + 1]))]_vars

\* the kinds of the tokens of a sequence
Kinds(toks) == [k \in 1..Len(toks) |-> toks[k][1]]

\* a text lexes to the kinds of tokens, and parses to the tree, of the text
\* that differs from it by spaces around its operators
SameAsSpaced(compact, spaced) ==
    (code = compact /\ phase # "read") =>
        /\ phase # "lexical_error"
        /\ Kinds(tokens) = Kinds(lexer(spaced).tokens)
        /\ phase # "lexed" =>
              /\ phase # "parsing_error"
              /\ ast = parse(lexer(spaced).tokens).node

\* C25 (as claimed; refuted): 10-2-3 lexes to the token kinds NUMBER OP NUMBER
\* OP NUMBER of 10 - 2 - 3 and parses to the same tree.
C25_SpacingInsensitive == SameAsSpaced("let r = 10-2-3;", "let r = 10 - 2 - 3;")

====
